---- MODULE Spec2Model ----
(***************************************************************************)
(* bytecheck: per-directory integrity manifests.                           *)
(*                                                                         *)
(* The model covers the manifest data model (entities, HMAC, auditor       *)
(* block, JSON save/load), the post-order walk, the per-directory worker   *)
(* pool of the scanner, the generator's processors, the verifier callback  *)
(* and the manifest auditor.                                               *)
(*                                                                         *)
(* Byte strings are terms [t, s, n, v]: a tag, a string payload, a number  *)
(* payload and a sequence of sub-terms.  SHA-256, HMAC-SHA256 and ed25519  *)
(* are ideal: a digest or signature is a term that wraps what it covers,   *)
(* so two digests are equal exactly when their inputs are equal.           *)
(***************************************************************************)
EXTENDS Integers, Sequences, FiniteSets, TLC

(***************************************************************************)
(* Bounds                                                                  *)
(***************************************************************************)
MaxRuns == 3
MaxEdits == 1
MaxWorkers == 2
MaxAudits == 2
MaxVerifiers == 2

(***************************************************************************)
(* The directory tree universe: root r holds file a and directory s,       *)
(* s holds file x and directory t, t is an empty directory.                *)
(***************************************************************************)
Root == "r"
DirNodes == {"r", "s", "t"}
FileNodes == {"a", "x"}
Nodes == DirNodes \cup FileNodes
Parent == [n \in Nodes \ {Root} |->
             CASE n = "a" -> "r" [] n = "s" -> "r"
               [] n = "x" -> "s" [] n = "t" -> "s"]

\* The trees a run may start from (r and s hold their file).
Shapes == {{"r"}, {"r", "s"}, {"r", "s", "t"}}

ManifestName == ".bytecheck.manifest"

\* File names are byte strings.  Three names that are not ASCII: the single
\* byte 0x80, which is not valid UTF-8; the letter U+0100 (bytes C4 80); and
\* the replacement character U+FFFD (bytes EF BF BD).
InvalidUtf8Name == "0x80"
NonAsciiName == "0xC4,0x80"
ReplacementName == "0xEF,0xBF,0xBD"
ByteNames == {InvalidUtf8Name, NonAsciiName, ReplacementName}

\* Byte order of the leaf names (Go compares strings bytewise; '.' < 'a').
Rank == [n \in Nodes \cup {ManifestName} \cup ByteNames |->
           CASE n = ManifestName -> 0
             [] n = "a" -> 1 [] n = "r" -> 2 [] n = "s" -> 3
             [] n = "t" -> 4 [] n = "x" -> 5
             [] n = InvalidUtf8Name -> 6
             [] n = NonAsciiName -> 7
             [] n = ReplacementName -> 8]

NameLess(a, b) == Rank[a] < Rank[b]

(***************************************************************************)
(* Terms                                                                   *)
(***************************************************************************)
T(tag, str, num, sub) == [t |-> tag, s |-> str, n |-> num, v |-> sub]

Str(x) == T("str", x, 0, <<>>)
EmptyStr == Str("")
Raw(c) == T("raw", "", c, <<>>)
NoFile == T("nofile", "", 0, <<>>)

Sha256(data) == T("sha256", "", 0, <<data>>)
HexEncode(bytes) == T("hex", "", 0, <<bytes>>)
HexDecode(h) == IF h.t = "hex" THEN h.v[1] ELSE T("badhex", "", 0, <<>>)

\* ed25519: a key pair is identified by a number; the public and the
\* private half carry the same number.
Key(k) == T("key", "", k, <<>>)
Ed25519Sign(priv, data) == T("sig", "", priv.n, <<data>>)
Ed25519Verify(pub, data, sig) ==
    /\ sig.t = "sig"
    /\ pub.t = "key"
    /\ sig.n = pub.n
    /\ sig.v = <<data>>

Concat(a, b) == T("cat", "", 0, <<a, b>>)

\* JSON values
JStr(x) == T("jstr", "", 0, <<x>>)
JBool(b) == T("jbool", "", IF b THEN 1 ELSE 0, <<>>)
JNum(k) == T("jnum", "", k, <<>>)
JArr(items) == T("jarr", "", 0, items)
JFld(name, val) == T("jfld", name, 0, <<val>>)
JObj(fields) == T("jobj", "", 0, fields)
\* json.MarshalIndent: the same document with two-space indentation
Indent(doc) == T("indent", "", 2, <<doc>>)

HasField(obj, name) == \E i \in 1..Len(obj.v) : obj.v[i].s = name
Field(obj, name) ==
    (CHOOSE f \in {obj.v[i] : i \in 1..Len(obj.v)} : f.s = name).v[1]

(***************************************************************************)
(* pkg/manifest: data model                                                *)
(***************************************************************************)
Entity(name, checksum, isDir) ==
    [Name |-> name, Checksum |-> checksum, IsDir |-> isDir]

CertificateData(pub, sig, issuerPub, ref) ==
    [PublicKey |-> pub, Signature |-> sig,
     IssuerPublicKey |-> issuerPub, IssuerRef |-> ref]

NoCertificateData == CertificateData(EmptyStr, EmptyStr, EmptyStr, "")

\* Manifest.Auditor is a pointer: present = FALSE models nil.
NoAuditor ==
    [present |-> FALSE, Timestamp |-> 0,
     Certificate |-> NoCertificateData, ManifestSignature |-> EmptyStr]

Manifest(entities, hmacStr, auditor) ==
    [Entities |-> entities, HMAC |-> hmacStr, Auditor |-> auditor]

\* sort.Slice(entities, Name <) as used by New and LoadManifest
RECURSIVE InsertByName(_, _)
InsertByName(e, sorted) ==
    IF sorted = <<>> THEN <<e>>
    ELSE IF NameLess(e.Name, Head(sorted).Name)
         THEN <<e>> \o sorted
         ELSE <<Head(sorted)>> \o InsertByName(e, Tail(sorted))

RECURSIVE SortByName(_)
SortByName(es) ==
    IF es = <<>> THEN <<>>
    ELSE InsertByName(Head(es), SortByName(Tail(es)))

\* New without the sort.Slice call: the entities stay in arrival order
NewUnsorted(entities) == Manifest(entities, EmptyStr, NoAuditor)

New(entities) == Manifest(SortByName(entities), EmptyStr, NoAuditor)

(***************************************************************************)
(* JSON encoding of a Manifest (struct tags of Entity, CertificateData,    *)
(* AuditorData and Manifest; "auditor" is omitempty, "hmac" is not).       *)
(***************************************************************************)
\* encoding/json writes a string coerced to valid UTF-8: every invalid byte
\* becomes U+FFFD
ToValidUTF8(name) == IF name = InvalidUtf8Name THEN ReplacementName ELSE name

MarshalEntity(e) ==
    JObj(<<JFld("name", JStr(Str(ToValidUTF8(e.Name)))),
           JFld("checksum", JStr(e.Checksum)),
           JFld("isDir", JBool(e.IsDir))>>)

MarshalCertificate(c) ==
    JObj(<<JFld("publicKey", JStr(c.PublicKey)),
           JFld("signature", JStr(c.Signature)),
           JFld("issuerPublicKey", JStr(c.IssuerPublicKey)),
           JFld("issuerReference", JStr(Str(c.IssuerRef)))>>)

MarshalAuditor(a) ==
    JObj(<<JFld("timestamp", JNum(a.Timestamp)),
           JFld("certificate", MarshalCertificate(a.Certificate)),
           JFld("manifestSignature", JStr(a.ManifestSignature))>>)

MarshalManifest(m) ==
    JObj(<<JFld("entities",
                JArr([i \in 1..Len(m.Entities) |-> MarshalEntity(m.Entities[i])])),
           JFld("hmac", JStr(m.HMAC))>>
         \o (IF m.Auditor.present
             THEN <<JFld("auditor", MarshalAuditor(m.Auditor))>>
             ELSE <<>>))

MarshalIndentManifest(m) == Indent(MarshalManifest(m))

UnmarshalEntity(j) ==
    Entity(Field(j, "name").v[1].s,
           Field(j, "checksum").v[1],
           Field(j, "isDir").n = 1)

UnmarshalCertificate(j) ==
    CertificateData(Field(j, "publicKey").v[1],
                    Field(j, "signature").v[1],
                    Field(j, "issuerPublicKey").v[1],
                    Field(j, "issuerReference").v[1].s)

UnmarshalAuditor(j) ==
    [present |-> TRUE,
     Timestamp |-> Field(j, "timestamp").n,
     Certificate |-> UnmarshalCertificate(Field(j, "certificate")),
     ManifestSignature |-> Field(j, "manifestSignature").v[1]]

\* json.Unmarshal accepts the document with or without indentation.
IsJsonDocument(data) ==
    \/ data.t = "jobj"
    \/ data.t = "indent" /\ data.v[1].t = "jobj"

UnmarshalManifest(data) ==
    LET j == IF data.t = "indent" THEN data.v[1] ELSE data
        arr == Field(j, "entities").v
    IN Manifest([i \in 1..Len(arr) |-> UnmarshalEntity(arr[i])],
                IF HasField(j, "hmac") THEN Field(j, "hmac").v[1] ELSE EmptyStr,
                IF HasField(j, "auditor")
                THEN UnmarshalAuditor(Field(j, "auditor"))
                ELSE NoAuditor)

(***************************************************************************)
(* pkg/manifest: HMAC                                                      *)
(***************************************************************************)
DEFAULT_HMAC_KEY == Str("this-is-obscurity-key-that")

\* hmac.go calculateHMAC(data): hex of HMAC-SHA256 under the process key
HmacHex(data) == HexEncode(T("hmac", "", 0, <<DEFAULT_HMAC_KEY, data>>))

\* The bytes Manifest.calculateHMAC feeds to the HMAC: json.Marshal of a
\* Manifest value that carries only the entities.
\* calculateHMAC copying the whole manifest and blanking only the HMAC field
HmacInputWithAuditor(m) == MarshalManifest([m EXCEPT !.HMAC = EmptyStr])

HmacInput(m) == MarshalManifest(Manifest(m.Entities, EmptyStr, NoAuditor))

\* Manifest.calculateHMAC: sets m.HMAC
CalculateHMAC(m) == [m EXCEPT !.HMAC = HmacHex(HmacInput(m))]

DataWithoutAuditor(m) == MarshalManifest([m EXCEPT !.Auditor = NoAuditor])

\* Manifest.SetAuditedBy with a nil certificate
ClearAuditedBy(m) == [m EXCEPT !.Auditor = NoAuditor]

\* Manifest.SetAuditedBy with a certificate: hex-encodes the binary fields
SetAuditedBy(m, cert, manifestSignature, now) ==
    [m EXCEPT !.Auditor =
        [present |-> TRUE,
         Timestamp |-> now,
         Certificate |-> CertificateData(HexEncode(cert.PubKey),
                                         HexEncode(cert.Sig),
                                         HexEncode(cert.IssuerPubKey),
                                         cert.IssuerRef),
         ManifestSignature |-> HexEncode(manifestSignature)]]

\* Manifest.GetAuditorCertificate: hex-decodes the stored certificate
GetAuditorCertificate(m) ==
    [PubKey |-> HexDecode(m.Auditor.Certificate.PublicKey),
     Sig |-> HexDecode(m.Auditor.Certificate.Signature),
     IssuerPubKey |-> HexDecode(m.Auditor.Certificate.IssuerPublicKey),
     IssuerRef |-> m.Auditor.Certificate.IssuerRef]

GetAuditorManifestSignature(m) == HexDecode(m.Auditor.ManifestSignature)

\* Manifest.Save: the bytes written to the manifest file
\* Save without the calculateHMAC call
SaveBytesNoHmac(m) == MarshalIndentManifest(m)

SaveBytes(m) == MarshalIndentManifest(CalculateHMAC(m))

\* LoadManifest on the bytes of an existing file:
\* [err |-> "" | "parse" | "invalid HMAC", m |-> manifest]
LoadBytes(data) ==
    IF ~IsJsonDocument(data)
    THEN [err |-> "parse", m |-> New(<<>>)]
    ELSE LET parsed == UnmarshalManifest(data)
             sorted == [parsed EXCEPT !.Entities = SortByName(parsed.Entities)]
             rehashed == CalculateHMAC(sorted)
         IN IF parsed.HMAC # rehashed.HMAC
            THEN [err |-> "invalid HMAC", m |-> New(<<>>)]
            ELSE [err |-> "", m |-> rehashed]

(***************************************************************************)
(* pkg/manifest: CompareManifests.  The differences are collected while    *)
(* ranging over Go maps, so their order is unspecified: a set.             *)
(***************************************************************************)
EntityNames(m) == {m.Entities[i].Name : i \in 1..Len(m.Entities)}

\* entitiesX[name]: the last entity of that name wins when building the map
EntityByName(m, name) ==
    LET idx == {i \in 1..Len(m.Entities) : m.Entities[i].Name = name}
    IN m.Entities[CHOOSE i \in idx : \A j \in idx : j <= i]

Difference(name, type) == [Name |-> name, Type |-> type]

CompareManifests(a, b) ==
    {Difference(n, "missing_in_b") : n \in EntityNames(a) \ EntityNames(b)}
    \cup {Difference(n, "type_mismatch") :
            n \in {k \in EntityNames(a) \cap EntityNames(b) :
                     EntityByName(a, k).IsDir # EntityByName(b, k).IsDir}}
    \cup {Difference(n, "checksum_mismatch") :
            n \in {k \in EntityNames(a) \cap EntityNames(b) :
                     /\ EntityByName(a, k).IsDir = EntityByName(b, k).IsDir
                     /\ EntityByName(a, k).Checksum # EntityByName(b, k).Checksum}}
    \cup {Difference(n, "missing_in_a") : n \in EntityNames(b) \ EntityNames(a)}

(***************************************************************************)
(* Signers and certificates                                                *)
(***************************************************************************)
RootKey == Key(0)
RootReference == "github:alice"

\* NewSignedProcessor keeping one key pair for every run
EphemeralKeyReused(k) == Key(1)

\* the ephemeral pair generated by NewSignedProcessor in run k
EphemeralKey(k) == Key(k)

\* SimpleCertificate.dataToSign: public key bytes followed by the reference
CertDataToSign(pub, ref) == Concat(pub, Str(ref))

\* The certificate built by NewSignedProcessor in run k
IssueCertificate(k) ==
    [PubKey |-> EphemeralKey(k),
     Sig |-> Ed25519Sign(RootKey, CertDataToSign(EphemeralKey(k), RootReference)),
     IssuerPubKey |-> RootKey,
     IssuerRef |-> RootReference]

\* history: one call of a Signer's Sign, by the key that signs
SignCall(key, data) == [by |-> key, data |-> data]

\* createProcessor: g.signer.Sign([]byte("test"))
ProbeSign == SignCall(RootKey, Str("test"))

\* the calls of the root signer's Sign made by createProcessor and
\* NewSignedProcessor for run k
NewSignedProcessorSigns(k) ==
    <<ProbeSign,
      SignCall(RootKey, CertDataToSign(EphemeralKey(k), RootReference))>>

\* SimpleCertificate.Verify
CertificateVerify(c) ==
    /\ c.IssuerRef # ""
    /\ Ed25519Verify(c.IssuerPubKey, CertDataToSign(c.PubKey, c.IssuerRef), c.Sig)

\* ed25519.Verify panics when the public key is not PublicKeySize bytes long
\* (every Key is; what hex.DecodeString leaves of a malformed string is not)
BadKeyLength(pub) == pub.t # "key"

\* SimpleManifestAuditor.Verify: [IsAudited, Error]; a panic of ed25519.Verify
\* ends the process and is kept as the error "panic"
AuditVerify(m) ==
    IF ~m.Auditor.present
    THEN [IsAudited |-> FALSE, Error |-> ""]
    ELSE LET cert == GetAuditorCertificate(m)
         IN IF cert.IssuerRef # "" /\ BadKeyLength(cert.IssuerPubKey)
            THEN [IsAudited |-> TRUE, Error |-> "panic"]
            ELSE IF ~CertificateVerify(cert)
            THEN [IsAudited |-> TRUE, Error |-> "auditor certificate is invalid"]
            ELSE IF ~Ed25519Verify(cert.PubKey, DataWithoutAuditor(m),
                                   GetAuditorManifestSignature(m))
                 THEN [IsAudited |-> TRUE, Error |-> "manifest signature is invalid"]
                 ELSE [IsAudited |-> TRUE, Error |-> ""]

EmptyMap == [r \in {} |-> 0]

\* m[k] = v on a Go map
MapSet(m, k, v) == [x \in DOMAIN m \cup {k} |-> IF x = k THEN v ELSE m[x]]

\* issuer.Issuer
Issuer(ref, key) == [Reference |-> ref, PublicKey |-> key]

\* SimpleManifestAuditor.Verify: the trustedIssuers map after the call
AuditIssuers(issuers, m) ==
    IF ~m.Auditor.present THEN issuers
    ELSE IF ~CertificateVerify(GetAuditorCertificate(m)) THEN issuers
    ELSE MapSet(issuers, GetAuditorCertificate(m).IssuerRef,
                Issuer(GetAuditorCertificate(m).IssuerRef,
                       GetAuditorCertificate(m).IssuerPubKey))

\* SimpleManifestAuditor.GetIssuers: the values of the map (Go ranges over it
\* in an unspecified order; the references of the values are distinct)
GetIssuers(issuers) == {issuers[r] : r \in DOMAIN issuers}

(***************************************************************************)
(* pkg/issuer: trust sources                                               *)
(***************************************************************************)
OtherRootKey == Key(100)
IssuerKeys == {RootKey, OtherRootKey}
CustomReference == "custom:alice"
References == {RootReference, CustomReference}
Schemes == {"github:", "custom:"}

\* strings.HasPrefix(reference, scheme) on the references above
HasPrefix(ref, scheme) ==
    \/ ref = "github:alice" /\ scheme = "github:"
    \/ ref = "custom:alice" /\ scheme = "custom:"
    \/ ref = "github:" /\ scheme = "github:"

\* a reference that is its scheme alone
EmptyIdReference == "github:"

\* strings.TrimPrefix(reference, scheme)
TrimPrefix(ref, scheme) ==
    IF ~HasPrefix(ref, scheme) THEN ref
    ELSE IF ref = EmptyIdReference THEN ""
    ELSE "alice"

\* issuer.Status
Status(issuer, supported, err) ==
    [Issuer |-> issuer, Supported |-> supported, Error |-> err]

\* a URLBasedVerifier and what its URL yields: an error, or a set of keys
URLBasedVerifier(scheme, fetchErr, keys) ==
    [type |-> "url", nil |-> FALSE, scheme |-> scheme, fetchErr |-> fetchErr,
     keys |-> keys]

\* URLBasedVerifier.Supports
Supports(v, ref) == HasPrefix(ref, v.scheme)

\* fetchPublicKeys reading the source whatever the identifier is
FetchPublicKeysAnyIdentifier(v, ref) ==
    IF v.fetchErr THEN [err |-> "failed to fetch", keys |-> {}]
    ELSE [err |-> "", keys |-> v.keys]

\* URLBasedVerifier.fetchPublicKeys: the trusted keys, or an error
FetchPublicKeys(v, ref) ==
    IF TrimPrefix(ref, v.scheme) = ""
    THEN [err |-> "invalid reference: missing identifier", keys |-> {}]
    ELSE IF v.fetchErr THEN [err |-> "failed to fetch", keys |-> {}]
    ELSE [err |-> "", keys |-> v.keys]

\* URLBasedVerifier.Verify on a set of issuers: reference -> Status
URLVerify(v, issuers) ==
    [ref \in {i.Reference : i \in issuers} |->
        LET issuerGroup == {i \in issuers : i.Reference = ref}
            first == CHOOSE i \in issuerGroup : TRUE
        IN IF ~Supports(v, ref) THEN Status(first, FALSE, "")
           ELSE IF FetchPublicKeys(v, ref).err # ""
           THEN Status(first, TRUE, "could not fetch keys")
           ELSE IF \E i \in issuerGroup :
                      i.PublicKey \notin FetchPublicKeys(v, ref).keys
           THEN Status(first, TRUE, "not found in trusted source")
           ELSE Status(first, TRUE, "")]

\* the value of BYTECHECK_CUSTOM_AUDITOR_VERIFIER_URL_TEMPLATE: unset, or a
\* template and what its URL yields
EnvUnset == [set |-> FALSE, fetchErr |-> FALSE, keys |-> {}]
EnvTemplate(fetchErr, keys) == [set |-> TRUE, fetchErr |-> fetchErr, keys |-> keys]

\* NewCustomURLVerifier: the embedded *URLBasedVerifier is nil when the
\* variable is unset
NewCustomURLVerifier(env) ==
    IF ~env.set
    THEN [type |-> "custom", nil |-> TRUE, scheme |-> "custom:",
          fetchErr |-> FALSE, keys |-> {}]
    ELSE [URLBasedVerifier("custom:", env.fetchErr, env.keys)
            EXCEPT !.type = "custom"]

\* CustomURLVerifier.Supports without the test for nil
CustomSupportsUnchecked(v, ref) == Supports(v, ref)

\* CustomURLVerifier.Supports
CustomSupports(v, ref) == IF v.nil THEN FALSE ELSE Supports(v, ref)

\* CustomURLVerifier.Verify: a nil *URLBasedVerifier is dereferenced and the
\* process panics
CustomVerify(v, issuers) ==
    IF v.nil
    THEN [ref \in {i.Reference : i \in issuers} |->
            Status(CHOOSE i \in issuers : i.Reference = ref, FALSE, "panic")]
    ELSE URLVerify(v, issuers)

\* Verifier interface: the method of the value's type
VerifierSupports(v, ref) ==
    IF v.type = "custom" THEN CustomSupports(v, ref) ELSE Supports(v, ref)

VerifierVerify(v, issuers) ==
    IF v.type = "custom" THEN CustomVerify(v, issuers) ELSE URLVerify(v, issuers)

\* MultiSourceVerifier.Verify going on to the next sub-verifier when one
\* that supports the reference reports an error
RECURSIVE DelegateWithFallback(_, _, _)
DelegateWithFallback(verifiers, k, issuer) ==
    IF k > Len(verifiers)
    THEN [status |-> Status(issuer, FALSE, ""), consulted |-> <<>>]
    ELSE IF VerifierSupports(verifiers[k], issuer.Reference)
    THEN LET this == VerifierVerify(verifiers[k], {issuer})[issuer.Reference]
             rest == DelegateWithFallback(verifiers, k + 1, issuer)
         IN IF this.Error = "" \/ rest.consulted = <<>>
            THEN [status |-> this, consulted |-> <<k>>]
            ELSE [status |-> rest.status, consulted |-> <<k>> \o rest.consulted]
    ELSE DelegateWithFallback(verifiers, k + 1, issuer)

\* MultiSourceVerifier.Verify, inner loop from the k-th sub-verifier on: the
\* status for one issuer and the sub-verifiers whose Verify was called
RECURSIVE Delegate(_, _, _)
Delegate(verifiers, k, issuer) ==
    IF k > Len(verifiers)
    THEN [status |-> Status(issuer, FALSE, ""), consulted |-> <<>>]
    ELSE IF VerifierSupports(verifiers[k], issuer.Reference)
    THEN [status |-> VerifierVerify(verifiers[k], {issuer})[issuer.Reference],
          consulted |-> <<k>>]
    ELSE Delegate(verifiers, k + 1, issuer)

\* MultiSourceVerifier.Verify: reference -> Status
MultiVerify(verifiers, issuers) ==
    [ref \in {i.Reference : i \in issuers} |->
        Delegate(verifiers, 1,
                 CHOOSE i \in issuers : i.Reference = ref).status]

\* the sub-verifiers MultiSourceVerifier.Verify called, by reference
MultiConsulted(verifiers, issuers) ==
    [ref \in {i.Reference : i \in issuers} |->
        Delegate(verifiers, 1,
                 CHOOSE i \in issuers : i.Reference = ref).consulted]

(***************************************************************************)
(* State                                                                   *)
(***************************************************************************)
VARIABLES
    dirs,       \* the directories of the tree
    files,      \* file -> content (0: the file does not exist)
    mf,         \* directory -> bytes of its manifest file, or NoFile
    mfresh,     \* directory -> its manifest's mtime is within the freshness limit
    run,        \* the command being executed, its options and its context
    stack,      \* WalkPostOrder's call stack, innermost call first
    scan,       \* the scanDirectory call in progress
    stats,      \* scanner.Stats counters
    statuses,   \* Verifier: directoryStatuses
    generated,  \* Generator: manifestsGenerated
    cbLog,      \* history: the callback invocations of this run
    signedMsg,  \* history: directory -> bytes last signed for its manifest
    lastJob,    \* history: the last checksum job on a child directory
    genKind,    \* history: how the manifests on disk were generated
    genFiles,   \* history: file contents at that generation
    startMf,    \* history: manifest files when the current run started
    pre,        \* history: genKind and the files edited since, at run start
    edits,      \* number of file edits made so far
    trustedIssuers,   \* SimpleManifestAuditor: reference -> issuer
    verifiers,        \* MultiSourceVerifier: the sub-verifiers, in order
    auditorStatuses,  \* Verifier result: reference -> issuer.Status
    auditLog,         \* history: the audits made by the auditor
    consulted,        \* history: reference -> sub-verifiers asked to verify
    prog              \* scanner.Stats beside its counters, and the progress channel

vars == <<dirs, files, mf, mfresh, run, stack, scan, stats, statuses,
          generated, cbLog, signedMsg, lastJob, genKind, genFiles, startMf,
          pre, edits, trustedIssuers, verifiers, auditorStatuses, auditLog,
          consulted, prog>>

trustVars == <<trustedIssuers, verifiers, auditorStatuses, auditLog, consulted>>

fsVars == <<dirs, files, mf, mfresh>>
histVars == <<signedMsg, lastJob, genKind, genFiles, startMf, pre, edits>>

(***************************************************************************)
(* File system helpers                                                     *)
(***************************************************************************)
Children(d) ==
    {c \in dirs : c # Root /\ Parent[c] = d}
    \cup {f \in FileNodes : files[f] # 0 /\ Parent[f] = d}

RECURSIVE SortedNames(_)
SortedNames(S) ==
    IF S = {} THEN <<>>
    ELSE LET m == CHOOSE x \in S : \A y \in S : Rank[x] <= Rank[y]
         IN <<m>> \o SortedNames(S \ {m})

\* os.ReadDir: the entries of d sorted by file name
ReadDir(d) ==
    LET names == SortedNames(Children(d)
                             \cup (IF mf[d] # NoFile THEN {ManifestName} ELSE {}))
    IN [i \in 1..Len(names) |->
          [Name |-> names[i], IsDir |-> names[i] \in DirNodes]]

\* the bytes of the file behind a checksum job, NoFile when os.Open fails
\* a worker that hashes the name of a subdirectory instead of its manifest
FileBytesDirByName(d, entry) ==
    IF entry.Name = ManifestName THEN mf[d]
    ELSE IF entry.IsDir THEN Str(entry.Name)
    ELSE Raw(files[entry.Name])

FileBytes(d, entry) ==
    IF entry.Name = ManifestName THEN mf[d]
    ELSE IF entry.IsDir THEN mf[entry.Name]
    ELSE Raw(files[entry.Name])

\* calculateChecksum: lowercase hex of the SHA-256 of the bytes
ChecksumOf(bytes) == HexEncode(Sha256(bytes))

\* WalkPostOrder on entry: read the directory, sort, keep the subdirectories
\* WalkPostOrder without the recursion into the subdirectories
FrameNoRecursion(d) == [dir |-> d, kids |-> <<>>]

Frame(d) ==
    [dir |-> d,
     kids |-> SortedNames({c \in dirs : c # Root /\ Parent[c] = d})]

IdleScan ==
    [active |-> FALSE, dir |-> Root, entries |-> <<>>, next |-> 1,
     wk |-> <<>>, out |-> <<>>, err |-> ""]

NoEntity == Entity("", EmptyStr, FALSE)
IdleWorker == [st |-> "idle", job |-> 0, ent |-> NoEntity]

NoJob == [any |-> FALSE, child |-> Root, onDisk |-> FALSE]

TypeOK ==
    /\ dirs \in Shapes
    /\ files \in [FileNodes -> 0..2]
    /\ \A d \in DirNodes : mf[d].t \in {"nofile", "indent"}
    /\ mfresh \in [DirNodes -> BOOLEAN]
    /\ run.no \in 0..MaxRuns
    /\ run.mode \in {"none", "generate", "verify", "scan"}
    /\ run.state \in {"idle", "walking", "done"}
    /\ run.workers \in 1..MaxWorkers
    /\ scan.active \in BOOLEAN
    /\ edits \in 0..MaxEdits

\* the verifier the verify command is built with: github keys of the root signer
DefaultVerifiers == <<URLBasedVerifier("github:", FALSE, {RootKey})>>

(***************************************************************************)
(* scanner.Stats beside its counters, and the progress channel that the    *)
(* callback of Scanner.Walk sends the snapshots on                         *)
(***************************************************************************)
\* capacity of the progress channel (the commands make it with room for 10)
ProgressBuffer == 1

\* a zero Stats, no ticker goroutine, and an open, empty progress channel
NewProgress ==
    [dirty |-> FALSE, currentFile |-> "", bytes |-> 0, onUpdate |-> FALSE,
     ticker |-> "none", buf |-> <<>>, closed |-> FALSE, panic |-> FALSE,
     calls |-> 0]

\* Stats.Snapshot: a copy of the counters and of the current file
Snapshot(st, p) ==
    [dirs |-> st.dirs, cached |-> st.cached, files |-> st.files,
     bytes |-> p.bytes, currentFile |-> p.currentFile]

\* Stats.requestUpdate
RequestUpdate(p) == [p EXCEPT !.dirty = TRUE]

\* a SetCurrentFile that marks the change
SetCurrentFileMarking(p, path) ==
    [p EXCEPT !.currentFile = path, !.dirty = TRUE]

\* Stats.SetCurrentFile: the path is stored under the mutex
SetCurrentFile(p, path) == [p EXCEPT !.currentFile = path]

\* Stats.AddBytesProcessed
AddBytesProcessed(p, n) == RequestUpdate([p EXCEPT !.bytes = @ + n])

\* a callback that keeps every snapshot, whatever the room in the channel
OnUpdateKeepingAll(p, snap, ctxDone) ==
    {[p EXCEPT !.buf = Append(@, snap)]}

\* the callback Scanner.Walk hands to Stats.Start: a select over ctx.Done(),
\* the send on the progress channel and a default.  Of the cases that can
\* proceed one is taken; a send on a closed channel proceeds and panics.
OnUpdate(p, snap, ctxDone) ==
    LET done == IF ctxDone THEN {p} ELSE {}
        send == IF p.closed
                THEN {[p EXCEPT !.panic = TRUE, !.ticker = "exited"]}
                ELSE IF Len(p.buf) < ProgressBuffer
                THEN {[p EXCEPT !.buf = Append(@, snap)]}
                ELSE {}
    IN IF done \cup send = {} THEN {p} ELSE done \cup send

\* Stats.sendUpdate: nothing without a subscriber, else one call of it with a
\* snapshot
SendUpdate(p, snap, ctxDone) ==
    IF ~p.onUpdate THEN {p}
    ELSE OnUpdate([p EXCEPT !.calls = @ + 1], snap, ctxDone)

\* Stats.Start: Clear, the subscriber is kept, one update is sent at once and
\* the ticker goroutine is started
StatsStart(p, st) ==
    SendUpdate([p EXCEPT !.currentFile = "", !.bytes = 0, !.onUpdate = TRUE,
                         !.ticker = "running"],
               Snapshot(st, [bytes |-> 0, currentFile |-> ""]), FALSE)

\* an unscanned tree, a new auditor and a new scanner built with one of the
\* given workers counts
InitWalkWith(counts) ==
    /\ dirs \in Shapes
    /\ files = [f \in FileNodes |-> IF Parent[f] \in dirs THEN 1 ELSE 0]
    /\ mf = [d \in DirNodes |-> NoFile]
    /\ mfresh = [d \in DirNodes |-> FALSE]
    /\ \E w \in counts :
          run = [no |-> 0, mode |-> "none", signed |-> FALSE, fresh |-> FALSE,
                 workers |-> w, state |-> "idle", err |-> "", cancelAt |-> "",
                 signs |-> <<>>, keys |-> <<>>]
    /\ stack = <<>>
    /\ scan = IdleScan
    /\ stats = [dirs |-> 0, cached |-> 0, files |-> 0]
    /\ prog = NewProgress
    /\ statuses = <<>>
    /\ generated = <<>>
    /\ cbLog = <<>>
    /\ signedMsg = [d \in DirNodes |-> NoFile]
    /\ lastJob = NoJob
    /\ genKind = "none"
    /\ genFiles = files
    /\ startMf = mf
    /\ pre = [kind |-> "none", changed |-> {}, prev |-> "none"]
    /\ edits = 0
    /\ trustedIssuers = EmptyMap
    /\ auditorStatuses = EmptyMap
    /\ auditLog = <<>>
    /\ consulted = EmptyMap

\* the scanner of the commands: a positive workers count
InitWalk == InitWalkWith(1..MaxWorkers)

Init ==
    /\ InitWalk
    /\ verifiers = DefaultVerifiers

(***************************************************************************)
(* The callbacks handed to Scanner.Walk.  Each yields the error it returns *)
(* and the values of what it may change.                                   *)
(***************************************************************************)
Effect(err, newMf, newFresh, newStatuses, newGenerated, newSigned) ==
    [err |-> err, mf |-> newMf, mfresh |-> newFresh, statuses |-> newStatuses,
     generated |-> newGenerated, signedMsg |-> newSigned, touched |-> FALSE,
     issuers |-> trustedIssuers, audits |-> auditLog, signs |-> run.signs]

\* history: what auditor.Verify was given and what it answered
AuditRecord(m) ==
    [audited |-> m.Auditor.present,
     ref |-> GetAuditorCertificate(m).IssuerRef,
     key |-> GetAuditorCertificate(m).IssuerPubKey,
     err |-> AuditVerify(m).Error]

\* auditor.Verify(m) as part of a callback: the issuers it remembers
Audited(m, eff) ==
    [eff EXCEPT !.issuers = AuditIssuers(trustedIssuers, m),
                !.audits = Append(auditLog, AuditRecord(m))]

\* Touch writing the file anew to refresh its modification time
TouchRewriting(d, eff) ==
    [eff EXCEPT !.mf = [eff.mf EXCEPT ![d] = SaveBytes(New(<<>>))],
                !.mfresh = [eff.mfresh EXCEPT ![d] = TRUE], !.touched = TRUE]

\* Manifest.Touch: os.Chtimes(manifestPath, now, now)
Touch(d, eff) ==
    [eff EXCEPT !.mfresh = [eff.mfresh EXCEPT ![d] = TRUE], !.touched = TRUE]

NoEffect(err) == Effect(err, mf, mfresh, statuses, generated, signedMsg)

\* UnsignedProcessor.Process without the Save call
UnsignedProcessNoSave(d, m) ==
    Effect("", mf, mfresh, statuses, Append(generated, d), signedMsg)

\* UnsignedProcessor.Process
UnsignedProcess(d, m) ==
    Effect("",
           [mf EXCEPT ![d] = SaveBytes(ClearAuditedBy(m))],
           [mfresh EXCEPT ![d] = TRUE],
           statuses,
           Append(generated, d),
           signedMsg)

\* a processor whose signer is the root signer itself
ProcessorSignerRoot(k) == RootKey

\* SignedProcessor.signer: the Ed25519Signer over the ephemeral private key
ProcessorSigner(k) == EphemeralKey(k)

\* SignedProcessor.Process
SignedProcess(d, m) ==
    LET manifestData == DataWithoutAuditor(m)
        manifestSignature == Ed25519Sign(ProcessorSigner(run.no), manifestData)
        audited == SetAuditedBy(m, IssueCertificate(run.no), manifestSignature,
                                run.no)
    IN [Effect("",
               [mf EXCEPT ![d] = SaveBytes(audited)],
               [mfresh EXCEPT ![d] = TRUE],
               statuses,
               Append(generated, d),
               [signedMsg EXCEPT ![d] = manifestData])
          EXCEPT !.signs = Append(run.signs,
                                  SignCall(ProcessorSigner(run.no), manifestData))]

\* Generator.Generate with the unsigned processor whatever the probe said
GenerateCallbackUnsigned(d, m, cached, scanErr) ==
    IF scanErr # "" THEN NoEffect(scanErr)
    ELSE IF cached THEN NoEffect("")
    ELSE UnsignedProcess(d, m)

\* Generator.Generate: the function passed to Walk
GenerateCallback(d, m, cached, scanErr) ==
    IF scanErr # "" THEN NoEffect(scanErr)
    ELSE IF cached THEN NoEffect("")
    ELSE IF run.signed THEN SignedProcess(d, m)
    ELSE UnsignedProcess(d, m)

DirStatus(d, found, skipped, valid, audited, diffs) ==
    [Path |-> d, Found |-> found, Skipped |-> skipped, Valid |-> valid,
     Signed |-> audited, Audited |-> audited, Differences |-> diffs]

\* Verifier.Verify touching the manifest before looking at the comparison
VerifyComparedTouchFirst(d, auditResult, differences) ==
    IF auditResult.IsAudited /\ auditResult.Error # ""
    THEN NoEffect(auditResult.Error)
    ELSE Touch(d, Effect("", mf, mfresh,
                         Append(statuses,
                                DirStatus(d, TRUE, FALSE, differences = {},
                                          auditResult.IsAudited, differences)),
                         generated, signedMsg))

\* Verifier.Verify, after the audit: the comparison decides the status
VerifyCompared(d, auditResult, differences) ==
    IF auditResult.IsAudited /\ auditResult.Error # ""
    THEN NoEffect(auditResult.Error)
    ELSE IF differences # {}
    THEN Effect("", mf, mfresh,
                Append(statuses,
                       DirStatus(d, TRUE, FALSE, FALSE,
                                 auditResult.IsAudited, differences)),
                generated, signedMsg)
    ELSE \* Touch, then record the directory as valid
         Touch(d, Effect("", mf, mfresh,
                         Append(statuses,
                                DirStatus(d, TRUE, FALSE, TRUE,
                                          auditResult.IsAudited, {})),
                         generated, signedMsg))

\* Verifier.Verify without the auditor.Verify call
VerifyLoadedUnaudited(d, loaded, computedManifest) ==
    IF loaded.err # "" THEN NoEffect(loaded.err)
    ELSE VerifyCompared(d, [IsAudited |-> FALSE, Error |-> ""],
                        CompareManifests(loaded.m, computedManifest))

\* Verifier.Verify, after LoadManifest: audit, then compare
VerifyLoaded(d, loaded, computedManifest) ==
    IF loaded.err # "" THEN NoEffect(loaded.err)
    ELSE Audited(loaded.m,
                 VerifyCompared(d, AuditVerify(loaded.m),
                                CompareManifests(loaded.m, computedManifest)))

\* Verifier.Verify treating a cached directory like a scanned one
VerifyCallbackIgnoringCached(d, computedManifest, cached, scanErr) ==
    IF scanErr # "" THEN NoEffect(scanErr)
    ELSE IF mf[d] = NoFile THEN NoEffect("manifest not found")
    ELSE VerifyLoaded(d, LoadBytes(mf[d]), computedManifest)

\* Verifier.Verify: the function passed to Walk
VerifyCallback(d, computedManifest, cached, scanErr) ==
    IF scanErr # "" THEN NoEffect(scanErr)
    ELSE IF cached
    THEN Effect("", mf, mfresh,
                Append(statuses, DirStatus(d, TRUE, TRUE, FALSE, FALSE, {})),
                generated, signedMsg)
    ELSE IF mf[d] = NoFile THEN NoEffect("manifest not found")
    ELSE VerifyLoaded(d, LoadBytes(mf[d]), computedManifest)

\* A callback that only inspects the manifest it is given (scanner tests)
ScanCallback(d, m, cached, scanErr) == NoEffect(scanErr)

Callback(d, m, cached, scanErr) ==
    CASE run.mode = "generate" -> GenerateCallback(d, m, cached, scanErr)
      [] run.mode = "verify" -> VerifyCallback(d, m, cached, scanErr)
      [] OTHER -> ScanCallback(d, m, cached, scanErr)

\* WalkPostOrder going on to the next directory whatever walkFn returned
UnwindNever(err) == Tail(stack)

\* WalkPostOrder after walkFn returned for the directory on top of the stack:
\* an error is returned through every pending call, nil to the caller alone
Unwind(err) == IF err # "" THEN <<>> ELSE Tail(stack)

(***************************************************************************)
(* Walk: scanDirectory returned (m, cached, scanErr) for the directory on  *)
(* top of the stack; the callback runs; WalkPostOrder returns to its       *)
(* caller, or the whole walk returns the callback's error.                 *)
(***************************************************************************)
Deliver(d, m, cached, scanErr) ==
    \E eff \in {Callback(d, m, cached, scanErr)} :
    \E log \in {Append(cbLog, [dir |-> d, cached |-> cached,
                               ok |-> eff.err = "",
                               touched |-> eff.touched,
                               err |-> eff.err])} :
    \E finished \in {Unwind(eff.err) = <<>>} :
        LET anyCached == \E i \in 1..Len(log) : log[i].cached
            kind == IF run.signed THEN "signed" ELSE "unsigned"
            regenerated == finished /\ eff.err = "" /\ run.mode = "generate"
        IN /\ mf' = eff.mf
           /\ mfresh' = eff.mfresh
           /\ statuses' = eff.statuses
           /\ generated' = eff.generated
           /\ signedMsg' = eff.signedMsg
           /\ cbLog' = log
           /\ trustedIssuers' = eff.issuers
           /\ auditLog' = eff.audits
           /\ IF finished /\ run.mode = "verify" /\ eff.err = ""
              THEN \* Verifier.Verify builds its result
                   /\ auditorStatuses' =
                         MultiVerify(verifiers, GetIssuers(eff.issuers))
                   /\ consulted' =
                         MultiConsulted(verifiers, GetIssuers(eff.issuers))
              ELSE UNCHANGED <<auditorStatuses, consulted>>
           /\ UNCHANGED verifiers
           /\ stack' = Unwind(eff.err)
           /\ run' = [run EXCEPT !.state = IF finished THEN "done" ELSE "walking",
                                 !.err = eff.err,
                                 !.signs = eff.signs]
           /\ genKind' = IF ~regenerated THEN genKind
                         ELSE IF ~anyCached THEN kind
                         ELSE IF genKind = kind /\ files = genFiles THEN genKind
                         ELSE "mixed"
           /\ genFiles' = IF regenerated /\ ~anyCached THEN files ELSE genFiles

(***************************************************************************)
(* Commands                                                                *)
(***************************************************************************)
\* generate, verify or a bare Scanner.Walk is started on the tree
StartRun(mode, signed, fresh) ==
    /\ run.state \in {"idle", "done"}
    /\ run.no < MaxRuns
    /\ signed => mode = "generate"
    /\ run' = [no |-> run.no + 1, mode |-> mode, signed |-> signed,
               fresh |-> fresh, workers |-> run.workers, state |-> "walking",
               err |-> "", cancelAt |-> "",
               signs |-> IF mode # "generate" THEN <<>>
                         ELSE IF signed THEN NewSignedProcessorSigns(run.no + 1)
                         ELSE <<ProbeSign>>,
               keys |-> IF signed THEN <<EphemeralKey(run.no + 1)>> ELSE <<>>]
    /\ stack' = <<Frame(Root)>>
    /\ scan' = IdleScan
    /\ stats' = [dirs |-> 0, cached |-> 0, files |-> 0]
    /\ prog' \in StatsStart(NewProgress, [dirs |-> 0, cached |-> 0, files |-> 0])
    /\ statuses' = <<>>
    /\ generated' = <<>>
    /\ cbLog' = <<>>
    /\ lastJob' = NoJob
    /\ startMf' = mf
    /\ pre' = [kind |-> genKind,
               changed |-> {f \in FileNodes : files[f] # genFiles[f]},
               prev |-> IF run.state = "done" /\ run.err = ""
                        THEN run.mode ELSE "none"]
    /\ trustedIssuers' = EmptyMap
    /\ auditLog' = <<>>
    /\ auditorStatuses' = EmptyMap
    /\ consulted' = EmptyMap
    /\ UNCHANGED <<fsVars, signedMsg, genKind, genFiles, edits, verifiers>>

\* Generate with a signer whose Sign fails with an error other than
\* ErrNotImplemented, at the probe of createProcessor or at the signature of
\* the certificate in NewSignedProcessor: "failed to create processor" is
\* returned and Walk is not called
GenerateFails(where) ==
    /\ run.state \in {"idle", "done"}
    /\ run.no < MaxRuns
    /\ run' = [no |-> run.no + 1, mode |-> "generate", signed |-> FALSE,
               fresh |-> FALSE, workers |-> run.workers, state |-> "done",
               err |-> "failed to create processor", cancelAt |-> "",
               signs |-> IF where = "probe" THEN <<ProbeSign>>
                         ELSE NewSignedProcessorSigns(run.no + 1),
               keys |-> IF where = "probe" THEN <<>>
                        ELSE <<EphemeralKey(run.no + 1)>>]
    /\ stack' = <<>>
    /\ scan' = IdleScan
    /\ stats' = [dirs |-> 0, cached |-> 0, files |-> 0]
    /\ prog' = NewProgress
    /\ statuses' = <<>>
    /\ generated' = <<>>
    /\ cbLog' = <<>>
    /\ lastJob' = NoJob
    /\ startMf' = mf
    /\ pre' = [kind |-> genKind,
               changed |-> {f \in FileNodes : files[f] # genFiles[f]},
               prev |-> IF run.state = "done" /\ run.err = ""
                        THEN run.mode ELSE "none"]
    /\ trustedIssuers' = EmptyMap
    /\ auditLog' = <<>>
    /\ auditorStatuses' = EmptyMap
    /\ consulted' = EmptyMap
    /\ UNCHANGED <<fsVars, signedMsg, genKind, genFiles, edits, verifiers>>

\* WalkPostOrder recurses into the next subdirectory
Descend ==
    /\ run.state = "walking"
    /\ ~scan.active
    /\ stack # <<>>
    /\ Head(stack).kids # <<>>
    /\ stack' = <<Frame(Head(Head(stack).kids))>>
                \o <<[Head(stack) EXCEPT !.kids = Tail(@)]>>
                \o Tail(stack)
    /\ UNCHANGED <<fsVars, run, scan, stats, prog, statuses, generated, cbLog,
                   histVars, trustVars>>

(***************************************************************************)
(* Scanner.scanDirectory                                                   *)
(***************************************************************************)
\* LoadManifestIfFresh taking every manifest for too old
LoadManifestIfFreshNever(d, limitSet) ==
    [err |-> "", found |-> FALSE, m |-> New(<<>>)]

\* LoadManifestIfFresh taking a manifest that does not load for absent
LoadManifestIfFreshOrAbsent(d, limitSet) ==
    IF ~limitSet \/ mf[d] = NoFile \/ ~mfresh[d]
    THEN [err |-> "", found |-> FALSE, m |-> New(<<>>)]
    ELSE [err |-> "", found |-> LoadBytes(mf[d]).err = "",
          m |-> LoadBytes(mf[d]).m]

\* LoadManifestIfFresh: [err, found, m]
LoadManifestIfFresh(d, limitSet) ==
    IF ~limitSet \/ mf[d] = NoFile \/ ~mfresh[d]
    THEN [err |-> "", found |-> FALSE, m |-> New(<<>>)]
    ELSE LET loaded == LoadBytes(mf[d])
         IN [err |-> loaded.err, found |-> loaded.err = "", m |-> loaded.m]

Min(a, b) == IF a < b THEN a ELSE b

\* ctx.Err() of the errgroup's context: done once the caller's context is
\* cancelled or a goroutine of the group has returned an error
CtxErr ==
    IF run.cancelAt # "" \/ scan.err # "" THEN "context canceled" ELSE ""

\* errgroup keeps the first error its goroutines return
FirstError(err) == IF scan.err = "" THEN err ELSE scan.err

\* scanDirectory is entered for the directory whose subdirectories are done:
\* a fresh manifest is reused, otherwise the worker pool is started
ScanBegin ==
    /\ run.state = "walking"
    /\ ~scan.active
    /\ stack # <<>>
    /\ Head(stack).kids = <<>>
    /\ LET d == Head(stack).dir
           cache == LoadManifestIfFresh(d, run.fresh)
           entries == ReadDir(d)
       IN IF cache.err # ""
          THEN /\ Deliver(d, New(<<>>), FALSE, cache.err)
               /\ UNCHANGED <<scan, stats, prog>>
          ELSE IF cache.found
          THEN /\ stats' = [stats EXCEPT !.cached = @ + 1]
               /\ prog' = RequestUpdate(prog)
               /\ Deliver(d, cache.m, TRUE, "")
               /\ UNCHANGED scan
          ELSE /\ scan' = [active |-> TRUE, dir |-> d, entries |-> entries,
                           next |-> 1,
                           wk |-> [w \in 1..Min(Len(entries), run.workers)
                                     |-> IdleWorker],
                           out |-> <<>>, err |-> ""]
               /\ UNCHANGED <<mf, mfresh, statuses, generated, signedMsg, cbLog,
                              stack, run, genKind, genFiles, stats, prog,
                              trustVars>>
    /\ UNCHANGED <<dirs, files, lastJob, startMf, pre, edits>>

\* the job sender hands the next entry to a worker waiting on the jobs channel
\* (the workers run the same code: of the waiting ones the first is taken)
SendJob(w) ==
    /\ scan.active
    /\ scan.next <= Len(scan.entries)
    /\ w \in DOMAIN scan.wk
    /\ scan.wk[w].st = "idle"
    /\ \A v \in 1..(w - 1) : scan.wk[v].st # "idle"
    /\ scan' = [scan EXCEPT !.next = @ + 1,
                            !.wk[w] = [st |-> "busy", job |-> scan.next,
                                       ent |-> NoEntity]]
    /\ UNCHANGED <<fsVars, run, stack, stats, prog, statuses, generated, cbLog,
                   histVars, trustVars>>

\* the job sender sees the group's context done and returns ctx.Err()
SenderCancelled ==
    /\ scan.active
    /\ scan.next <= Len(scan.entries)
    /\ CtxErr # ""
    /\ scan' = [scan EXCEPT !.next = Len(scan.entries) + 1,
                            !.err = FirstError(CtxErr)]
    /\ UNCHANGED <<fsVars, run, stack, stats, prog, statuses, generated, cbLog,
                   histVars, trustVars>>

\* a worker without the manifest-name test
IsManifestEntryNever(entry) == FALSE

\* the worker's test for the manifest file itself, which it skips
IsManifestEntry(entry) == entry.Name = ManifestName

\* a worker handles the job it holds.  The test of ctx.Err() on taking the
\* job and the test in byteCounter.Write after a block is hashed return the
\* same error and no result, so a cancellation during the read is the step
\* taken with the context already done.
WorkerProcess(w) ==
    /\ scan.active
    /\ w \in DOMAIN scan.wk
    /\ scan.wk[w].st = "busy"
    /\ LET entry == scan.entries[scan.wk[w].job]
           bytes == FileBytes(scan.dir, entry)
       IN IF CtxErr # ""
          THEN \* ctx.Err() != nil: the worker returns it
               /\ scan' = [scan EXCEPT !.wk[w].st = "exit",
                                       !.err = FirstError(CtxErr)]
               /\ UNCHANGED <<stats, prog, lastJob>>
          ELSE IF IsManifestEntry(entry)
          THEN /\ scan' = [scan EXCEPT !.wk[w] = IdleWorker]
               /\ UNCHANGED <<stats, prog, lastJob>>
          ELSE /\ lastJob' = IF entry.IsDir
                             THEN [any |-> TRUE, child |-> entry.Name,
                                   onDisk |-> bytes # NoFile]
                             ELSE lastJob
               /\ IF bytes = NoFile
                  THEN \* os.Open fails: the worker returns the error
                       /\ scan' = [scan EXCEPT !.wk[w].st = "exit",
                                               !.err = "open"]
                       /\ UNCHANGED <<stats, prog>>
                  ELSE /\ stats' = [stats EXCEPT !.files = @ + 1]
                       /\ prog' = RequestUpdate(AddBytesProcessed(
                                     SetCurrentFile(prog, entry.Name), 1))
                       /\ scan' = [scan EXCEPT
                                     !.wk[w].st = "send",
                                     !.wk[w].ent = Entity(entry.Name,
                                                          ChecksumOf(bytes),
                                                          entry.IsDir)]
    /\ UNCHANGED <<fsVars, run, stack, statuses, generated, cbLog, signedMsg,
                   genKind, genFiles, startMf, pre, edits, trustVars>>

\* a collecting loop that stops reading the results once the group's context
\* is done
CollectUntilError(w) ==
    /\ scan.active
    /\ w \in DOMAIN scan.wk
    /\ scan.wk[w].st = "send"
    /\ CtxErr = ""
    /\ scan' = [scan EXCEPT !.out = Append(@, scan.wk[w].ent),
                            !.wk[w] = IdleWorker]
    /\ UNCHANGED <<fsVars, run, stack, stats, prog, statuses, generated, cbLog,
                   histVars, trustVars>>

\* the collecting loop receives a worker's result
Collect(w) ==
    /\ scan.active
    /\ w \in DOMAIN scan.wk
    /\ scan.wk[w].st = "send"
    /\ scan' = [scan EXCEPT !.out = Append(@, scan.wk[w].ent),
                            !.wk[w] = IdleWorker]
    /\ UNCHANGED <<fsVars, run, stack, stats, prog, statuses, generated, cbLog,
                   histVars, trustVars>>

\* jobs is closed and every worker has returned: g.Wait, manifest.New, then
\* the callback
ScanReturn ==
    /\ scan.active
    /\ scan.next > Len(scan.entries)
    /\ \A w \in DOMAIN scan.wk : scan.wk[w].st \in {"idle", "exit"}
    /\ IF scan.err # ""
       THEN /\ Deliver(scan.dir, New(<<>>), FALSE, scan.err)
            /\ UNCHANGED <<stats, prog>>
       ELSE /\ stats' = [stats EXCEPT !.dirs = @ + 1]
            /\ prog' = RequestUpdate(prog)
            /\ Deliver(scan.dir, New(scan.out), FALSE, "")
    /\ scan' = IdleScan
    /\ UNCHANGED <<dirs, files, lastJob, startMf, pre, edits>>

(***************************************************************************)
(* The environment between two commands                                    *)
(***************************************************************************)
\* the content of an existing file is overwritten (run.state "done" is kept
\* for the states in which nothing has happened since the command returned)
EditFile(f) ==
    /\ run.state \in {"idle", "done"}
    /\ edits < MaxEdits
    /\ files[f] # 0
    /\ files' = [files EXCEPT ![f] = 3 - @]
    /\ edits' = edits + 1
    /\ run' = [run EXCEPT !.state = "idle"]
    /\ UNCHANGED <<dirs, mf, mfresh, stack, scan, stats, prog, statuses,
                   generated, cbLog, signedMsg, lastJob, genKind, genFiles,
                   startMf, pre, trustVars>>

\* enough time passes for every manifest on disk to be older than the limit
TimePasses ==
    /\ run.state \in {"idle", "done"}
    /\ \E d \in DirNodes : mfresh[d]
    /\ mfresh' = [d \in DirNodes |-> FALSE]
    /\ run' = [run EXCEPT !.state = "idle"]
    /\ UNCHANGED <<dirs, files, mf, stack, scan, stats, prog, statuses,
                   generated, cbLog, histVars, trustVars>>

\* the context of the running command is cancelled (interrupt signal); the
\* place of the walk at that moment is kept: before the directory on top of
\* the stack is read, while a job of it is still to be taken or read, or later
Cancel ==
    /\ run.state = "walking"
    /\ run.cancelAt = ""
    /\ run' = [run EXCEPT !.cancelAt =
                  IF ~scan.active THEN "enumeration"
                  ELSE IF \/ scan.next <= Len(scan.entries)
                          \/ \E w \in DOMAIN scan.wk : scan.wk[w].st = "busy"
                       THEN "handoff"
                       ELSE "late"]
    /\ UNCHANGED <<fsVars, stack, scan, stats, prog, statuses, generated, cbLog,
                   histVars, trustVars>>

\* Commands run without a freshness interval
Next ==
    \/ \E mode \in {"generate", "verify", "scan"}, signed \in BOOLEAN :
          StartRun(mode, signed, FALSE)
    \/ Descend
    \/ ScanBegin
    \/ \E w \in 1..MaxWorkers : SendJob(w)
    \/ SenderCancelled
    \/ \E w \in 1..MaxWorkers : WorkerProcess(w)
    \/ \E w \in 1..MaxWorkers : Collect(w)
    \/ ScanReturn
    \/ \E f \in FileNodes : EditFile(f)

Spec == Init /\ [][Next]_vars

\* Commands run with a signer that works, that does not sign, or that fails
NextSigner ==
    \/ Next
    \/ \E where \in {"probe", "certificate"} : GenerateFails(where)

SpecSigner == Init /\ [][NextSigner]_vars

\* a scanner built WithWorkersCount(1)
InitOneWorker == Init /\ run.workers = 1

\* Commands run with or without a freshness interval
NextFresh ==
    \/ Next
    \/ \E mode \in {"generate", "verify", "scan"}, signed \in BOOLEAN :
          StartRun(mode, signed, TRUE)
    \/ TimePasses

SpecFresh == InitOneWorker /\ [][NextFresh]_vars

\* Time passes after a generate that wrote every manifest of the tree: the
\* manifests were written in post-order, each with the clock of its write, so
\* the first n of them are older than the limit while the later ones, if any,
\* are not
OlderManifestsAge(n) ==
    /\ run.state = "done"
    /\ run.mode = "generate"
    /\ run.err = ""
    /\ Len(generated) = Cardinality(dirs)
    /\ n \in 1..Len(generated)
    /\ mfresh' = [d \in DirNodes |->
                    mfresh[d] /\ ~(\E i \in 1..n : generated[i] = d)]
    /\ run' = [run EXCEPT !.state = "idle"]
    /\ UNCHANGED <<dirs, files, mf, stack, scan, stats, prog, statuses,
                   generated, cbLog, histVars, trustVars>>

\* generate run again and again, with or without a freshness interval, while
\* files change and manifests grow old, and scans of the tree
NextAge ==
    \/ \E signed \in BOOLEAN, fresh \in BOOLEAN :
          StartRun("generate", signed, fresh)
    \/ StartRun("scan", FALSE, FALSE)
    \/ Descend
    \/ ScanBegin
    \/ \E w \in 1..MaxWorkers : SendJob(w)
    \/ SenderCancelled
    \/ \E w \in 1..MaxWorkers : WorkerProcess(w)
    \/ \E w \in 1..MaxWorkers : Collect(w)
    \/ ScanReturn
    \/ \E f \in FileNodes : EditFile(f)
    \/ \E n \in 1..Cardinality(DirNodes) : OlderManifestsAge(n)

SpecAge == InitOneWorker /\ [][NextAge]_vars

\* generate and verify, with or without a freshness interval, that may be
\* interrupted
NextCancel ==
    \/ \E mode \in {"generate", "verify"}, fresh \in BOOLEAN :
          StartRun(mode, FALSE, fresh)
    \/ Descend
    \/ ScanBegin
    \/ \E w \in 1..MaxWorkers : SendJob(w)
    \/ SenderCancelled
    \/ \E w \in 1..MaxWorkers : WorkerProcess(w)
    \/ \E w \in 1..MaxWorkers : Collect(w)
    \/ ScanReturn
    \/ Cancel

SpecCancel == Init /\ [][NextCancel]_vars

(***************************************************************************)
(* The worker pool of scanDirectory on its own: scans and unsigned         *)
(* generates by a scanner built WithWorkersCount(n) for any integer n the  *)
(* option takes, which may be interrupted.                                 *)
(***************************************************************************)
\* WithWorkersCount stores the value it is given, whatever its sign
WorkersCounts == (-1)..MaxWorkers

InitPool ==
    /\ InitWalkWith(WorkersCounts)
    /\ verifiers = DefaultVerifiers

\* a step of one of the goroutines of scanDirectory
PoolStep ==
    \/ \E w \in 1..MaxWorkers : SendJob(w)
    \/ SenderCancelled
    \/ \E w \in 1..MaxWorkers : WorkerProcess(w)
    \/ \E w \in 1..MaxWorkers : Collect(w)
    \/ ScanReturn

NextPool ==
    \/ \E mode \in {"generate", "scan"} : StartRun(mode, FALSE, FALSE)
    \/ Descend
    \/ ScanBegin
    \/ PoolStep
    \/ Cancel

\* the Go scheduler runs a goroutine that can take a step
SpecPool == InitPool /\ [][NextPool]_vars /\ WF_vars(PoolStep)

(***************************************************************************)
(* The ticker goroutine of Stats.Start, the reader of the progress channel *)
(* and the command that closes the channel once the walk has returned      *)
(***************************************************************************)
walkVars == <<fsVars, run, stack, scan, stats, statuses, generated, cbLog,
              histVars, trustVars>>

\* the ticker fires with the dirty flag set: the flag is cleared and one
\* update is sent (a tick that finds the flag clear changes nothing)
Tick ==
    /\ prog.ticker = "running"
    /\ prog.dirty
    /\ prog' \in SendUpdate([prog EXCEPT !.dirty = FALSE],
                            Snapshot(stats, prog), run.cancelAt # "")
    /\ UNCHANGED walkVars

\* the ticker goroutine takes the ctx.Done() case and returns
TickerExit ==
    /\ prog.ticker = "running"
    /\ run.cancelAt # ""
    /\ prog' = [prog EXCEPT !.ticker = "exited"]
    /\ UNCHANGED walkVars

\* ProgressMonitor.Monitor receives a snapshot from the channel
MonitorReceive ==
    /\ prog.buf # <<>>
    /\ prog' = [prog EXCEPT !.buf = Tail(@)]
    /\ UNCHANGED walkVars

\* the command, after Generate or Verify has returned: close(progressCh)
CloseProgress ==
    /\ run.state = "done"
    /\ ~prog.closed
    /\ prog' = [prog EXCEPT !.closed = TRUE]
    /\ UNCHANGED walkVars

\* a step of the goroutine that walks the tree
WalkStep ==
    \/ Descend
    \/ ScanBegin
    \/ PoolStep

NextProgress ==
    \/ \E mode \in {"generate", "verify"} : StartRun(mode, FALSE, FALSE)
    \/ WalkStep
    \/ Cancel
    \/ Tick
    \/ TickerExit
    \/ MonitorReceive
    \/ CloseProgress

SpecProgress == InitOneWorker /\ [][NextProgress]_vars

\* a generate or a scan whose context is not cancelled, with the ticker and a
\* reader of the channel
NextDrop ==
    \/ \E mode \in {"generate", "scan"} : StartRun(mode, FALSE, FALSE)
    \/ WalkStep
    \/ Tick
    \/ MonitorReceive

\* the scheduler runs the walking goroutine; nothing makes the reader of the
\* channel receive
SpecDrop == InitOneWorker /\ [][NextDrop]_vars /\ WF_vars(WalkStep)

(***************************************************************************)
(* Stats used on its own: its methods called one after the other by a      *)
(* client that has subscribed with Start                                   *)
(***************************************************************************)
\* how many counting calls the client makes
MaxCalls == 3

CallsMade == stats.dirs + stats.files + stats.cached + prog.bytes

Paths == {"a", "x"}

InitStats ==
    /\ Init
    /\ run.workers = 1
    /\ dirs = {Root}

\* Start with a callback that sends on the progress channel
Start ==
    /\ prog.ticker = "none"
    /\ stats' = [dirs |-> 0, cached |-> 0, files |-> 0]
    /\ prog' \in StatsStart(prog, stats')
    /\ UNCHANGED <<fsVars, run, stack, scan, statuses, generated, cbLog,
                   histVars, trustVars>>

IncreaseDirProcessed ==
    /\ CallsMade < MaxCalls
    /\ stats' = [stats EXCEPT !.dirs = @ + 1]
    /\ prog' = RequestUpdate(prog)
    /\ UNCHANGED <<fsVars, run, stack, scan, statuses, generated, cbLog,
                   histVars, trustVars>>

IncreaseFilesProcessed ==
    /\ CallsMade < MaxCalls
    /\ stats' = [stats EXCEPT !.files = @ + 1]
    /\ prog' = RequestUpdate(prog)
    /\ UNCHANGED <<fsVars, run, stack, scan, statuses, generated, cbLog,
                   histVars, trustVars>>

IncreaseCachedProcessed ==
    /\ CallsMade < MaxCalls
    /\ stats' = [stats EXCEPT !.cached = @ + 1]
    /\ prog' = RequestUpdate(prog)
    /\ UNCHANGED <<fsVars, run, stack, scan, statuses, generated, cbLog,
                   histVars, trustVars>>

AddBytes(n) ==
    /\ CallsMade + n <= MaxCalls
    /\ prog' = AddBytesProcessed(prog, n)
    /\ UNCHANGED walkVars

SetFile(path) ==
    /\ prog.currentFile # path
    /\ prog' = SetCurrentFile(prog, path)
    /\ UNCHANGED walkVars

\* a Stop that stops the ticker and calls nobody
StopSilent(p, snap) == {[p EXCEPT !.ticker = "exited"]}

\* Stats.Stop: the ticker goroutine is stopped and one last update is sent
StatsStop(p, snap) ==
    SendUpdate([p EXCEPT !.ticker = "exited", !.dirty = FALSE], snap, FALSE)

Stop ==
    /\ prog.ticker # "exited"
    /\ prog' \in StatsStop(prog, Snapshot(stats, prog))
    /\ UNCHANGED walkVars

NextStats ==
    \/ Start
    \/ IncreaseDirProcessed
    \/ IncreaseFilesProcessed
    \/ IncreaseCachedProcessed
    \/ \E n \in 1..2 : AddBytes(n)
    \/ \E path \in Paths : SetFile(path)
    \/ Tick
    \/ MonitorReceive
    \/ Stop

SpecStats == InitStats /\ [][NextStats]_vars

(***************************************************************************)
(* Manifest files rewritten between two commands                           *)
(***************************************************************************)
\* the JSON object with one field's value replaced
SetField(obj, name, val) ==
    JObj([i \in 1..Len(obj.v) |->
            IF obj.v[i].s = name THEN JFld(name, val) ELSE obj.v[i]])

\* the manifest file with "hmac": "invalid_hmac"
CorruptHmac(bytes) == Indent(SetField(bytes.v[1], "hmac", JStr(Str("invalid_hmac"))))

\* the manifest file with another byte string as the certificate's signature
CorruptCertificate(bytes) ==
    LET doc == bytes.v[1]
        auditor == Field(doc, "auditor")
        cert == Field(auditor, "certificate")
    IN Indent(SetField(doc, "auditor",
                       SetField(auditor, "certificate",
                                SetField(cert, "signature",
                                         JStr(HexEncode(Raw(0)))))))

TamperKinds == {"remove", "hmac", "certificate"}

\* a manifest file is deleted, or written anew with a changed field
Tamper(d, kind) ==
    /\ run.state \in {"idle", "done"}
    /\ edits < MaxEdits
    /\ d \in dirs
    /\ mf[d] # NoFile
    /\ kind = "hmac" => Field(mf[d].v[1], "hmac") # JStr(Str("invalid_hmac"))
    /\ kind = "certificate" =>
          /\ HasField(mf[d].v[1], "auditor")
          /\ CorruptCertificate(mf[d]) # mf[d]
    /\ mf' = [mf EXCEPT ![d] = CASE kind = "remove" -> NoFile
                                 [] kind = "hmac" -> CorruptHmac(mf[d])
                                 [] OTHER -> CorruptCertificate(mf[d])]
    /\ mfresh' = [mfresh EXCEPT ![d] = kind # "remove"]
    /\ genKind' = "tampered"
    /\ edits' = edits + 1
    /\ run' = [run EXCEPT !.state = "idle"]
    /\ UNCHANGED <<dirs, files, stack, scan, stats, prog, statuses, generated,
                   cbLog, signedMsg, lastJob, genFiles, startMf, pre, trustVars>>

\* Commands without a freshness interval on a tree whose manifests may be
\* deleted or rewritten
NextTamper ==
    \/ Next
    \/ \E d \in DirNodes, kind \in TamperKinds : Tamper(d, kind)

SpecTamper == InitOneWorker /\ [][NextTamper]_vars

\* the JSON object without the field of that name
RemoveField(obj, name) ==
    JObj(SelectSeq(obj.v, LAMBDA f : f.s # name))

\* the auditor block is deleted from a manifest file of a tree that a signed
\* generate has written; entities and hmac stay as they are
StripAuditor(d) ==
    /\ run.state \in {"idle", "done"}
    /\ edits < MaxEdits
    /\ d \in dirs
    /\ genKind = "signed"
    /\ files = genFiles
    /\ mf[d] # NoFile
    /\ HasField(mf[d].v[1], "auditor")
    /\ mf' = [mf EXCEPT ![d] = Indent(RemoveField(mf[d].v[1], "auditor"))]
    /\ mfresh' = [mfresh EXCEPT ![d] = TRUE]
    /\ genKind' = IF d = Root THEN "stripped root" ELSE "stripped"
    /\ edits' = edits + 1
    /\ run' = [run EXCEPT !.state = "idle"]
    /\ UNCHANGED <<dirs, files, stack, scan, stats, prog, statuses, generated,
                   cbLog, signedMsg, lastJob, genFiles, startMf, pre, trustVars>>

\* Commands without a freshness interval on a tree in which a manifest may
\* lose its auditor block
NextStrip ==
    \/ Next
    \/ \E d \in DirNodes : StripAuditor(d)

SpecStrip == InitOneWorker /\ [][NextStrip]_vars

\* Commands with or without a freshness interval on a tree whose manifests
\* may be rewritten with a wrong hmac
NextFreshCorrupt ==
    \/ Next
    \/ \E mode \in {"generate", "verify"}, signed \in BOOLEAN :
          StartRun(mode, signed, TRUE)
    \/ \E d \in DirNodes : Tamper(d, "hmac")

SpecFreshCorrupt == InitOneWorker /\ [][NextFreshCorrupt]_vars

(***************************************************************************)
(* The auditor and the trust verifier used on their own: manifests are     *)
(* handed to SimpleManifestAuditor.Verify one after the other, then the    *)
(* issuers it has kept are handed to MultiSourceVerifier.Verify.           *)
(***************************************************************************)
\* a loaded manifest carrying an auditor block: the certificate is issued by
\* issuerKey for ref or carries other bytes as its signature, the manifest
\* signature is made over the loaded body or over the body before its hmac
\* was set
AuditedManifest(ref, issuerKey, certOk, sigOk) ==
    LET m == CalculateHMAC(New(<<>>))
        cert == [PubKey |-> EphemeralKey(1),
                 Sig |-> IF certOk
                         THEN Ed25519Sign(issuerKey,
                                          CertDataToSign(EphemeralKey(1), ref))
                         ELSE Raw(0),
                 IssuerPubKey |-> issuerKey,
                 IssuerRef |-> ref]
        manifestSignature ==
            IF sigOk THEN Ed25519Sign(EphemeralKey(1), DataWithoutAuditor(m))
            ELSE Ed25519Sign(EphemeralKey(1), DataWithoutAuditor(New(<<>>)))
    IN SetAuditedBy(m, cert, manifestSignature, 1)

AuditInputs ==
    {CalculateHMAC(New(<<>>))}
    \cup {AuditedManifest(ref, k, TRUE, TRUE) : ref \in References, k \in IssuerKeys}
    \cup {AuditedManifest(RootReference, k, FALSE, TRUE) : k \in IssuerKeys}
    \cup {AuditedManifest(RootReference, k, TRUE, FALSE) : k \in IssuerKeys}
    \cup {AuditedManifest(EmptyIdReference, RootKey, TRUE, TRUE)}

\* the sources a sub-verifier may read: unreachable, the root key alone, or
\* both issuer keys
Sources == {[fetchErr |-> TRUE, keys |-> {}],
            [fetchErr |-> FALSE, keys |-> {RootKey}],
            [fetchErr |-> FALSE, keys |-> IssuerKeys]}

\* the github verifier, and the custom verifier built with the environment
\* variable unset or set
SubVerifiers ==
    {URLBasedVerifier("github:", src.fetchErr, src.keys) : src \in Sources}
    \cup {NewCustomURLVerifier(EnvTemplate(src.fetchErr, src.keys)) :
             src \in Sources}
    \cup {NewCustomURLVerifier(EnvUnset)}

VerifierConfigs == UNION {[1..n -> SubVerifiers] : n \in 0..MaxVerifiers}

\* NewSimpleManifestAuditor and NewMultiSourceVerifier(verifiers...)
InitTrust ==
    /\ InitWalk
    /\ dirs = {Root}
    /\ run.workers = 1
    /\ verifiers \in VerifierConfigs

\* auditor.Verify(m)
AuditManifest(m) ==
    /\ run.state = "idle"
    /\ Len(auditLog) < MaxAudits
    /\ trustedIssuers' = AuditIssuers(trustedIssuers, m)
    /\ auditLog' = Append(auditLog, AuditRecord(m))
    /\ UNCHANGED <<fsVars, run, stack, scan, stats, prog, statuses, generated, cbLog,
                   histVars, verifiers, auditorStatuses, consulted>>

\* trustVerifier.Verify(auditor.GetIssuers()), which ends the use of both
ResolveTrust ==
    /\ run.state = "idle"
    /\ auditorStatuses' = MultiVerify(verifiers, GetIssuers(trustedIssuers))
    /\ consulted' = MultiConsulted(verifiers, GetIssuers(trustedIssuers))
    /\ run' = [run EXCEPT !.state = "done"]
    /\ UNCHANGED <<fsVars, stack, scan, stats, prog, statuses, generated, cbLog,
                   histVars, trustedIssuers, verifiers, auditLog>>

NextTrust ==
    \/ \E m \in AuditInputs : AuditManifest(m)
    \/ ResolveTrust

SpecTrust == InitTrust /\ [][NextTrust]_vars

(***************************************************************************)
(* A stored manifest with a valid auditor block, fields of the block       *)
(* rewritten on disk, and the audit of what LoadManifest then returns.     *)
(***************************************************************************)
CertificateFields ==
    {"publicKey", "issuerPublicKey", "issuerReference", "signature"}

\* the values a field of the stored certificate is rewritten to: another
\* well-formed value, or a string that is not the hex of a value of the
\* right length
AlteredValues(field) ==
    CASE field = "publicKey" ->
            {JStr(HexEncode(EphemeralKey(2))), JStr(Str("zz"))}
      [] field = "issuerPublicKey" ->
            {JStr(HexEncode(k)) : k \in IssuerKeys} \cup {JStr(Str("zz"))}
      [] field = "issuerReference" ->
            {JStr(Str(ref)) : ref \in References} \cup {JStr(Str(""))}
      [] OTHER -> {JStr(HexEncode(Raw(0))), JStr(Str("zz"))}

\* the manifest file with one field of the certificate replaced
AlterCertificateField(bytes, field, val) ==
    LET doc == bytes.v[1]
        auditor == Field(doc, "auditor")
        cert == Field(auditor, "certificate")
    IN Indent(SetField(doc, "auditor",
                       SetField(auditor, "certificate",
                                SetField(cert, field, val))))

StoredCertificate(bytes) == Field(Field(bytes.v[1], "auditor"), "certificate")

ValidAuditInputs ==
    {AuditedManifest(ref, k, TRUE, TRUE) : ref \in References, k \in IssuerKeys}

\* Manifest.Save of a manifest whose auditor block passes the audit
StoreAudited(m) ==
    /\ run.state = "idle"
    /\ mf[Root] = NoFile
    /\ mf' = [mf EXCEPT ![Root] = SaveBytes(m)]
    /\ mfresh' = [mfresh EXCEPT ![Root] = TRUE]
    /\ startMf' = mf'
    /\ UNCHANGED <<dirs, files, run, stack, scan, stats, prog, statuses, generated,
                   cbLog, signedMsg, lastJob, genKind, genFiles, pre, edits,
                   trustVars>>

\* one field of the stored certificate is rewritten to another value
AlterCertificate(field, val) ==
    /\ run.state = "idle"
    /\ mf[Root] # NoFile
    /\ edits < MaxEdits
    /\ Field(StoredCertificate(mf[Root]), field) # val
    /\ mf' = [mf EXCEPT ![Root] = AlterCertificateField(mf[Root], field, val)]
    /\ genKind' = "tampered"
    /\ edits' = edits + 1
    /\ UNCHANGED <<dirs, files, mfresh, run, stack, scan, stats, prog, statuses,
                   generated, cbLog, signedMsg, lastJob, genFiles, startMf,
                   pre, trustVars>>

\* LoadManifest(manifestPath), then auditor.Verify(existingManifest)
AuditStored ==
    /\ mf[Root] # NoFile
    /\ LoadBytes(mf[Root]).err = ""
    /\ AuditManifest(LoadBytes(mf[Root]).m)

NextAudit ==
    \/ \E m \in ValidAuditInputs : StoreAudited(m)
    \/ \E field \in CertificateFields :
          \E val \in AlteredValues(field) : AlterCertificate(field, val)
    \/ AuditStored

\* NewSimpleManifestAuditor over an empty directory
InitAudit == InitTrust /\ verifiers = DefaultVerifiers

SpecAudit == InitAudit /\ [][NextAudit]_vars

(***************************************************************************)
(* The callback of a signed generate run, called for the directories of a  *)
(* tree with the manifests that scanDirectory may have computed for them:  *)
(* directories of the same content get manifests with the same entities.   *)
(***************************************************************************)
ComputedInputs ==
    {New(<<>>),
     New(<<Entity("a", ChecksumOf(Raw(1)), FALSE)>>),
     New(<<Entity("a", ChecksumOf(Raw(2)), FALSE)>>)}

\* walkFn(ctx, dirPath, m, false, nil) of Generator.Generate
Process(d, m) ==
    /\ run.state = "walking"
    /\ run.mode = "generate"
    /\ \A i \in 1..Len(generated) : generated[i] # d
    /\ \E eff \in {GenerateCallback(d, m, FALSE, "")} :
          /\ mf' = eff.mf
          /\ mfresh' = eff.mfresh
          /\ statuses' = eff.statuses
          /\ generated' = eff.generated
          /\ signedMsg' = eff.signedMsg
          /\ run' = [run EXCEPT !.signs = eff.signs]
    /\ UNCHANGED <<dirs, files, stack, scan, stats, prog, cbLog, lastJob, genKind,
                   genFiles, startMf, pre, edits, trustVars>>

NextProcess ==
    \/ StartRun("generate", TRUE, FALSE)
    \/ \E d \in DirNodes, m \in ComputedInputs : Process(d, m)

\* a tree of three directories
InitProcess == InitOneWorker /\ dirs = DirNodes

SpecProcess == InitProcess /\ [][NextProcess]_vars

(***************************************************************************)
(* Manifest.Save step by step.  os.WriteFile opens the path with O_TRUNC,  *)
(* writes the data and closes; nothing is written to a temporary file and  *)
(* renamed.  Between the steps another process may read the file.          *)
(***************************************************************************)
\* a file that os.WriteFile has opened: what it has written so far ("none"
\* or "some" of the data) and the data it is writing
Writing(written, data) == T("writing", written, 0, <<data>>)

\* os.ReadFile by another process: the bytes the file holds at that moment
ReadFile(file) ==
    IF file.t # "writing" THEN file
    ELSE IF file.s = "none" THEN EmptyStr
    ELSE T("prefix", "", 0, <<file.v[1]>>)

SaveInProgress == \E d \in DirNodes : mf[d].t = "writing"

\* Save: calculateHMAC, MarshalIndent, then os.WriteFile opens and truncates
SaveOpen(d, m) ==
    /\ run.state = "idle"
    /\ ~SaveInProgress
    /\ startMf' = mf
    /\ mf' = [mf EXCEPT ![d] = Writing("none", SaveBytes(m))]
    /\ mfresh' = [mfresh EXCEPT ![d] = TRUE]
    /\ UNCHANGED <<dirs, files, run, stack, scan, stats, prog, statuses, generated,
                   cbLog, signedMsg, lastJob, genKind, genFiles, pre, edits,
                   trustVars>>

\* os.WriteFile: a write call has stored a part of the data
SaveWriteSome(d) ==
    /\ mf[d].t = "writing"
    /\ mf[d].s = "none"
    /\ mf' = [mf EXCEPT ![d] = Writing("some", mf[d].v[1])]
    /\ UNCHANGED <<dirs, files, mfresh, run, stack, scan, stats, prog, statuses,
                   generated, cbLog, histVars, trustVars>>

\* os.WriteFile: the rest of the data is stored and the file is closed
SaveClose(d) ==
    /\ mf[d].t = "writing"
    /\ mf' = [mf EXCEPT ![d] = mf[d].v[1]]
    /\ UNCHANGED <<dirs, files, mfresh, run, stack, scan, stats, prog, statuses,
                   generated, cbLog, histVars, trustVars>>

NextSave ==
    \/ \E d \in DirNodes, m \in ComputedInputs : SaveOpen(d, m)
    \/ \E d \in DirNodes : SaveWriteSome(d)
    \/ \E d \in DirNodes : SaveClose(d)

SpecSave == InitProcess /\ [][NextSave]_vars

(***************************************************************************)
(* Save, changes made to the file on disk, and LoadManifest.               *)
(***************************************************************************)
EntityLists ==
    LET a1 == Entity("a", ChecksumOf(Raw(1)), FALSE)
        a2 == Entity("a", ChecksumOf(Raw(2)), FALSE)
        x1 == Entity("x", ChecksumOf(Raw(1)), FALSE)
        b1 == Entity(InvalidUtf8Name, ChecksumOf(Raw(1)), FALSE)
        c1 == Entity(NonAsciiName, ChecksumOf(Raw(1)), FALSE)
    IN {<<>>, <<a1>>, <<a2>>, <<a1, x1>>, <<x1, a1>>, <<a2, x1>>,
        <<b1>>, <<c1>>, <<b1, c1>>}

\* the manifests the program saves: built by New, with or without an
\* auditor block
SaveInputs ==
    {New(es) : es \in EntityLists}
    \cup {SetAuditedBy(New(es), IssueCertificate(1),
                       Ed25519Sign(EphemeralKey(1), DataWithoutAuditor(New(es))),
                       1) : es \in EntityLists}

\* the hmac values written into a stored file
AlteredHmacs ==
    {Str("invalid_hmac")} \cup {CalculateHMAC(New(es)).HMAC : es \in EntityLists}

\* Manifest.Save(manifestPath)
StoreManifest(m) ==
    /\ run.state = "idle"
    /\ mf[Root] = NoFile
    /\ mf' = [mf EXCEPT ![Root] = SaveBytes(m)]
    /\ mfresh' = [mfresh EXCEPT ![Root] = TRUE]
    /\ startMf' = mf'
    /\ UNCHANGED <<dirs, files, run, stack, scan, stats, prog, statuses, generated,
                   cbLog, signedMsg, lastJob, genKind, genFiles, pre, edits,
                   trustVars>>

\* the stored file is rewritten with another value of one field
AlterStored(field, val) ==
    /\ run.state = "idle"
    /\ mf[Root] # NoFile
    /\ edits < MaxEdits
    /\ Field(mf[Root].v[1], field) # val
    /\ mf' = [mf EXCEPT ![Root] = Indent(SetField(mf[Root].v[1], field, val))]
    /\ genKind' = "tampered"
    /\ edits' = edits + 1
    /\ UNCHANGED <<dirs, files, mfresh, run, stack, scan, stats, prog, statuses,
                   generated, cbLog, signedMsg, lastJob, genFiles, startMf,
                   pre, trustVars>>

\* LoadManifest(manifestPath): the error it returns is kept
LoadStored ==
    /\ run.state = "idle"
    /\ mf[Root] # NoFile
    /\ run' = [run EXCEPT !.state = "done", !.err = LoadBytes(mf[Root]).err]
    /\ UNCHANGED <<fsVars, stack, scan, stats, prog, statuses, generated, cbLog,
                   histVars, trustVars>>

NextLoad ==
    \/ \E m \in SaveInputs : StoreManifest(m)
    \/ \E es \in EntityLists :
          AlterStored("entities",
                      JArr([i \in 1..Len(es) |-> MarshalEntity(es[i])]))
    \/ \E h \in AlteredHmacs : AlterStored("hmac", JStr(h))
    \/ LoadStored

SpecLoad == InitAudit /\ [][NextLoad]_vars

(***************************************************************************)
(* Helpers for the properties                                              *)
(***************************************************************************)
HasManifest(d) == d \in dirs /\ mf[d] # NoFile
Stored(d) == LoadBytes(mf[d])
StoredDoc(d) == mf[d].v[1]

\* the bytes that went into the stored hmac value (the digest wraps them)
StoredHmacInput(d) == HexDecode(Field(StoredDoc(d), "hmac").v[1]).v[2]

IsSigned(d) == HasManifest(d) /\ HasField(StoredDoc(d), "auditor")

RunDone(mode) == run.state = "done" /\ run.mode = mode

(***************************************************************************)
(* C1: every manifest written by the signed processor, once loaded from    *)
(* its file, passes the manifest auditor: the certificate verifies against *)
(* the issuer public key it carries and the manifest signature verifies    *)
(* against the certificate's public key.                                   *)
(***************************************************************************)
C1_SignedManifestPassesAudit ==
    \A d \in DirNodes :
        IsSigned(d) =>
            /\ Stored(d).err = ""
            /\ AuditVerify(Stored(d).m).Error = ""

\* the first of the two checks alone
SignedCertificateVerifies ==
    \A d \in DirNodes :
        IsSigned(d) => CertificateVerify(GetAuditorCertificate(Stored(d).m))

(***************************************************************************)
(* C2: the bytes signed as manifest_signature are the bytes that           *)
(* DataWithoutAuditor returns for the stored manifest when it is reloaded  *)
(* ({entities, hmac} with the hmac value that Save wrote).                 *)
(***************************************************************************)
C2_SignedBytesAreStoredBody ==
    \A d \in DirNodes :
        (IsSigned(d) /\ signedMsg[d] # NoFile) =>
            signedMsg[d] = DataWithoutAuditor(Stored(d).m)

\* what the signed bytes are instead: the body with an empty hmac value
SignedBytesCarryEmptyHmac ==
    \A d \in DirNodes :
        (IsSigned(d) /\ signedMsg[d] # NoFile) =>
            signedMsg[d] =
                DataWithoutAuditor([Stored(d).m EXCEPT !.HMAC = EmptyStr])

RECURSIVE IsAncestor(_, _)
IsAncestor(a, c) ==
    /\ c # Root
    /\ \/ Parent[c] = a
       \/ IsAncestor(a, Parent[c])

Descendants(d) == {c \in dirs : IsAncestor(d, c)}

ReturnedNilBefore(c, i) ==
    \E j \in 1..(i - 1) : cbLog[j].dir = c /\ cbLog[j].ok

SavedThisRun(c) == \E k \in 1..Len(generated) : generated[k] = c

(***************************************************************************)
(* C4: a directory's manifest is computed, and its callback invoked, only  *)
(* after the callback has returned without error for every descendant      *)
(* directory; in a generate run every descendant's manifest is then on     *)
(* disk, written by this run.                                              *)
(***************************************************************************)
C4_DescendantsFirst ==
    /\ \A i \in 1..Len(cbLog) :
          \A c \in Descendants(cbLog[i].dir) : ReturnedNilBefore(c, i)
    /\ scan.active =>
          \A c \in Descendants(scan.dir) :
              /\ ReturnedNilBefore(c, Len(cbLog) + 1)
              /\ run.mode = "generate" => (HasManifest(c) /\ SavedThisRun(c))

C4_Witness ==
    /\ scan.active
    /\ scan.dir = Root
    /\ run.mode = "generate"
    /\ "t" \in dirs
    /\ Len(scan.out) > 0

ScanComplete ==
    /\ scan.active
    /\ scan.next > Len(scan.entries)
    /\ \A w \in DOMAIN scan.wk : scan.wk[w].st \in {"idle", "exit"}
    /\ scan.err = ""

(***************************************************************************)
(* C6: the manifest computed for a directory holds exactly one entity for  *)
(* each immediate child other than the manifest file, with the child's     *)
(* name and is-directory flag, whatever the number of workers and the      *)
(* order in which they deliver; the manifest file is never an entity.      *)
(***************************************************************************)
C6_OneEntityPerChild ==
    /\ scan.active =>
          \A i \in 1..Len(scan.out) :
              /\ scan.out[i].Name \in Children(scan.dir)
              /\ scan.out[i].IsDir = (scan.out[i].Name \in dirs)
              /\ \A j \in 1..Len(scan.out) :
                    scan.out[j].Name = scan.out[i].Name => j = i
    /\ ScanComplete =>
          LET m == New(scan.out)
              kids == SortedNames(Children(scan.dir))
          IN /\ Len(m.Entities) = Len(kids)
             /\ \A i \in 1..Len(kids) : m.Entities[i].Name = kids[i]

C6_Witness ==
    /\ ScanComplete
    /\ run.workers = 2
    /\ Len(scan.entries) = 3
    /\ scan.entries[1].Name = ManifestName
    /\ Len(scan.out) = 2
    /\ scan.out[1].Name = "s"

HmacIn(bytes) == Field(bytes.v[1], "hmac")

Above(f) == {d \in dirs : d = Parent[f] \/ IsAncestor(d, Parent[f])}

Regenerated ==
    /\ RunDone("generate")
    /\ run.err = ""
    /\ ~run.fresh
    /\ pre.kind \in {"unsigned", "signed"}

(***************************************************************************)
(* C7: when the tree is generated, one file's content is changed and the   *)
(* tree is generated again, the hmac of the root manifest changes, and so  *)
(* does the hmac of the manifest of every directory above the file.        *)
(***************************************************************************)
C7_MerklePropagation ==
    (Regenerated /\ Cardinality(pre.changed) = 1) =>
        \A f \in pre.changed :
            /\ HmacIn(mf[Root]) # HmacIn(startMf[Root])
            /\ \A d \in Above(f) : HmacIn(mf[d]) # HmacIn(startMf[d])

C7_Witness ==
    /\ Regenerated
    /\ pre.changed = {"x"}
    /\ "t" \in dirs
    /\ HmacIn(mf["s"]) # HmacIn(startMf["s"])
    /\ HmacIn(mf["t"]) = HmacIn(startMf["t"])

(***************************************************************************)
(* C8: an unsigned generate of a tree that was generated unsigned before   *)
(* and not modified since leaves every manifest file byte-identical,       *)
(* whatever the order in which the workers delivered their results.        *)
(***************************************************************************)
C8_Determinism ==
    (/\ RunDone("generate")
     /\ run.err = ""
     /\ ~run.signed
     /\ pre.kind = "unsigned"
     /\ pre.changed = {}) =>
        /\ mf = startMf
        /\ \A d \in dirs : HasManifest(d)

C8_Witness ==
    /\ RunDone("generate")
    /\ ~run.signed
    /\ pre.kind = "unsigned"
    /\ pre.changed = {}
    /\ run.workers = 2
    /\ "t" \in dirs
    /\ Len(generated) = 3
    /\ mf = startMf

StatusOf(d) ==
    {statuses[i] : i \in {k \in 1..Len(statuses) : statuses[k].Path = d}}

(***************************************************************************)
(* C9: a verify without freshness limit of a tree that was generated       *)
(* unsigned and not modified since returns no error and records every      *)
(* directory of the tree as found and valid.                               *)
(***************************************************************************)
C9_VerifyAfterUnsignedGenerate ==
    (/\ RunDone("verify")
     /\ ~run.fresh
     /\ pre.kind = "unsigned"
     /\ pre.changed = {}) =>
        /\ run.err = ""
        /\ Len(statuses) = Cardinality(dirs)
        /\ \A d \in dirs :
              /\ StatusOf(d) # {}
              /\ \A st \in StatusOf(d) :
                    st.Found /\ st.Valid /\ ~st.Skipped /\ st.Differences = {}

C9_Witness ==
    /\ RunDone("verify")
    /\ pre.kind = "unsigned"
    /\ pre.changed = {}
    /\ dirs = {"r", "s", "t"}
    /\ run.err = ""
    /\ Len(statuses) = 3
    /\ \A i \in 1..3 : statuses[i].Valid

ChangedFileReported ==
    /\ run.err = ""
    /\ \A f \in pre.changed :
          \A d \in dirs :
              /\ StatusOf(d) # {}
              /\ \A st \in StatusOf(d) :
                    IF d = Parent[f]
                    THEN /\ st.Found
                         /\ ~st.Valid
                         /\ st.Differences = {Difference(f, "checksum_mismatch")}
                    ELSE st.Found /\ st.Valid

(***************************************************************************)
(* C10: when after a generation the content of exactly one file is         *)
(* changed, verify records the directory holding that file as invalid with *)
(* exactly one difference, a checksum mismatch naming the file, and every  *)
(* other directory as valid.                                               *)
(***************************************************************************)
C10_ChangedFileReported ==
    (/\ RunDone("verify")
     /\ ~run.fresh
     /\ pre.kind \in {"unsigned", "signed"}
     /\ Cardinality(pre.changed) = 1) => ChangedFileReported

\* the same after an unsigned generation
ChangedFileReportedWhenUnsigned ==
    (/\ RunDone("verify")
     /\ ~run.fresh
     /\ pre.kind = "unsigned"
     /\ Cardinality(pre.changed) = 1) => ChangedFileReported

\* what is wrong with the manifest file a directory had when the run started
Defect(d) ==
    IF startMf[d] = NoFile THEN "manifest not found"
    ELSE IF LoadBytes(startMf[d]).err # "" THEN LoadBytes(startMf[d]).err
    ELSE AuditVerify(LoadBytes(startMf[d]).m).Error

Defects ==
    {"manifest not found", "invalid HMAC", "auditor certificate is invalid",
     "manifest signature is invalid"}

(***************************************************************************)
(* C11: when verify reaches a directory whose stored manifest is missing,  *)
(* has an invalid HMAC, or fails the certificate or the manifest-signature *)
(* check, the walk ends there: that callback is the last one of the run,   *)
(* and Verify returns that error (and with it no result).                  *)
(***************************************************************************)
C11_VerifyAbortsAtDefect ==
    (run.mode = "verify" /\ ~run.fresh) =>
        /\ \A i \in 1..Len(cbLog) :
              Defect(cbLog[i].dir) \in Defects =>
                  /\ ~cbLog[i].ok
                  /\ i = Len(cbLog)
                  /\ run.state # "walking"
                  /\ run.err = Defect(cbLog[i].dir)
                  /\ stack = <<>>
                  /\ ~scan.active
        /\ (run.state = "done" /\ \E d \in dirs : Defect(d) \in Defects) =>
              run.err # ""

C11_Witness ==
    /\ RunDone("verify")
    /\ dirs = {"r", "s", "t"}
    /\ Defect("t") = ""
    /\ Defect("s") = "invalid HMAC"
    /\ Len(cbLog) = 2
    /\ cbLog[1].ok
    /\ cbLog[2].dir = "s"
    /\ run.err = "invalid HMAC"

\* the stored manifest of the directory being scanned loads, passes the audit
\* and lists the entities the scan has computed
StoredMatchesScan ==
    /\ scan.err = ""
    /\ mf[scan.dir] # NoFile
    /\ LoadBytes(mf[scan.dir]).err = ""
    /\ AuditVerify(LoadBytes(mf[scan.dir]).m).Error = ""
    /\ LoadBytes(mf[scan.dir]).m.Entities = SortByName(scan.out)

LastCallback == cbLog[Len(cbLog)]

(***************************************************************************)
(* C12: in a verify run the callback of a directory touches the manifest   *)
(* file exactly when the stored manifest loaded with a valid HMAC, passed  *)
(* the audit and equals the computed manifest; a touch refreshes the       *)
(* modification time of that file alone, and without a touch no            *)
(* modification time changes; verify never changes a manifest's content.   *)
(***************************************************************************)
C12_TouchIffVerified ==
    [][(run.mode = "verify" /\ scan.active /\ ~scan'.active) =>
          /\ LastCallback'.dir = scan.dir
          /\ LastCallback'.touched <=> StoredMatchesScan
          /\ LastCallback'.touched =>
                mfresh' = [mfresh EXCEPT ![scan.dir] = TRUE]
          /\ ~LastCallback'.touched => mfresh' = mfresh
          /\ mf' = mf]_vars

C12_Witness ==
    /\ RunDone("verify")
    /\ pre.changed = {"x"}
    /\ Len(cbLog) = 3
    /\ cbLog[1].touched
    /\ cbLog[2].dir = "s"
    /\ cbLog[2].ok
    /\ ~cbLog[2].touched
    /\ cbLog[3].touched

\* scanDirectory is about to be entered for a directory whose manifest is
\* within the freshness limit of the run
AtFreshDirectory ==
    /\ run.state = "walking"
    /\ run.fresh
    /\ ~scan.active
    /\ stack # <<>>
    /\ Head(stack).kids = <<>>
    /\ mf[Head(stack).dir] # NoFile
    /\ mfresh[Head(stack).dir]

\* the generate run that has ended, with a freshness limit, was started
\* right after a generate run that had ended without error
SecondGenerate ==
    /\ RunDone("generate")
    /\ run.fresh
    /\ pre.prev = "generate"

(***************************************************************************)
(* C13: with a freshness limit, a generate run that comes to a directory   *)
(* whose manifest is fresh adds one to cached_processed and nothing to     *)
(* dirs_processed, starts no worker and hashes no child, and leaves the    *)
(* manifest file as it is; a generate run started right after another      *)
(* generate run delivers every directory as cached.                        *)
(***************************************************************************)
C13_FreshManifestIsReused ==
    [][/\ (AtFreshDirectory /\ run.mode = "generate") =>
             /\ stats' = [stats EXCEPT !.cached = @ + 1]
             /\ ~scan'.active
             /\ lastJob' = lastJob
             /\ mf' = mf
             /\ mfresh' = mfresh
             /\ generated' = generated
             /\ LastCallback'.dir = Head(stack).dir
             /\ LastCallback'.cached
             /\ LastCallback'.ok
       /\ SecondGenerate' =>
             /\ run'.err = ""
             /\ stats' = [dirs |-> 0, cached |-> Cardinality(dirs), files |-> 0]
             /\ Len(cbLog') = Cardinality(dirs)
             /\ \A i \in 1..Len(cbLog') : cbLog'[i].cached
             /\ generated' = <<>>
             /\ mf' = startMf']_vars

C13_Witness ==
    /\ SecondGenerate
    /\ dirs = {"r", "s", "t"}
    /\ stats.cached = 3
    /\ pre.changed = {"x"}

(***************************************************************************)
(* C14: with a freshness limit, a walk that comes to a directory whose     *)
(* manifest is fresh but has an invalid HMAC ends there with the           *)
(* invalid-HMAC error: the directory is not delivered as cached, no worker *)
(* is started for it and its manifest file is not written.                 *)
(***************************************************************************)
C14_FreshCorruptManifestAborts ==
    [][(AtFreshDirectory /\ LoadBytes(mf[Head(stack).dir]).err = "invalid HMAC")
          => /\ run'.state = "done"
             /\ run'.err = "invalid HMAC"
             /\ stack' = <<>>
             /\ ~scan'.active
             /\ stats' = stats
             /\ mf' = mf
             /\ generated' = generated
             /\ statuses' = statuses
             /\ LastCallback'.dir = Head(stack).dir
             /\ ~LastCallback'.cached
             /\ ~LastCallback'.ok]_vars

C14_Witness ==
    /\ RunDone("generate")
    /\ run.fresh
    /\ run.err = "invalid HMAC"
    /\ Len(cbLog) = 2
    /\ cbLog[1].cached
    /\ cbLog[2].dir = "s"
    /\ mf = startMf
    /\ LoadBytes(mf["s"]).err = "invalid HMAC"

(***************************************************************************)
(* C15: a verify run that is handed a directory as cached appends the      *)
(* status found and skipped, not valid, and returns nil: the manifest file *)
(* is not audited, not compared and not touched, and no status of a run is *)
(* both skipped and valid.                                                 *)
(***************************************************************************)
C15_CachedIsSkippedNotVerified ==
    [][/\ (AtFreshDirectory /\ run.mode = "verify"
             /\ LoadBytes(mf[Head(stack).dir]).err = "") =>
             /\ LastCallback'.dir = Head(stack).dir
             /\ LastCallback'.cached
             /\ LastCallback'.ok
             /\ ~LastCallback'.touched
             /\ statuses' = Append(statuses,
                                   DirStatus(Head(stack).dir, TRUE, TRUE, FALSE,
                                             FALSE, {}))
             /\ mf' = mf
             /\ mfresh' = mfresh
       /\ run'.mode = "verify" =>
             \A i \in 1..Len(statuses') :
                /\ statuses'[i].Path = cbLog'[i].dir
                /\ statuses'[i].Skipped <=> cbLog'[i].cached
                /\ statuses'[i].Skipped => ~statuses'[i].Valid]_vars

C15_Witness ==
    /\ RunDone("verify")
    /\ run.fresh
    /\ run.err = ""
    /\ dirs = {"r", "s", "t"}
    /\ Len(statuses) = 3
    /\ \A i \in 1..3 : statuses[i].Skipped /\ ~statuses[i].Valid
    /\ AuditVerify(Stored("r").m).Error = "manifest signature is invalid"
    /\ mf = startMf

\* a cancellation seen by a worker or by the job sender ends the walk with the
\* cancellation error, and the callback of that directory writes nothing
CancelObservedAborts ==
    [][(scan.active /\ scan.err = "context canceled" /\ ~scan'.active) =>
          /\ run'.state = "done"
          /\ run'.err = "context canceled"
          /\ stack' = <<>>
          /\ ~LastCallback'.ok
          /\ mf' = mf
          /\ mfresh' = mfresh]_vars

\* a cancellation signalled while a job of the directory is still to be taken
\* or read is seen; one signalled before a directory is read is seen in a run
\* without freshness limit on these trees, whose root is never empty
CancelSeenWhereTested ==
    (run.state = "done" /\ run.err # "manifest not found") =>
        /\ run.cancelAt = "handoff" => run.err = "context canceled"
        /\ (run.cancelAt = "enumeration" /\ ~run.fresh) =>
              run.err = "context canceled"

\* a generate run cancelled before its first directory is read, that directory
\* being empty: its callback runs and writes the manifest all the same
CancelledBeforeEmptyDirectory ==
    /\ RunDone("generate")
    /\ run.cancelAt = "enumeration"
    /\ Len(cbLog) = 1
    /\ cbLog[1].dir = "t"
    /\ cbLog[1].ok
    /\ startMf["t"] = NoFile
    /\ mf["t"] # NoFile
    /\ stats.dirs = 1
    /\ stats.files = 0

(***************************************************************************)
(* C16: a walk whose context is cancelled before the directory it has come *)
(* to is read, or while an entry of that directory is still to be handed   *)
(* to a worker or read, does not end without error: it ends with the       *)
(* cancellation error, unless the error of a missing manifest ends it.     *)
(***************************************************************************)
C16_CancelledWalkAborts ==
    (run.state = "done" /\ run.cancelAt \in {"enumeration", "handoff"}) =>
        /\ run.err # ""
        /\ run.err # "manifest not found" => run.err = "context canceled"

(***************************************************************************)
(* C17: a callback that returns an error is the last callback of the walk: *)
(* the walk is over, no other directory is scanned or delivered, and Walk  *)
(* returns the error that callback returned.                               *)
(***************************************************************************)
C17_CallbackErrorStopsWalk ==
    \A i \in 1..Len(cbLog) :
        cbLog[i].err # "" =>
            /\ i = Len(cbLog)
            /\ run.state # "walking"
            /\ run.err = cbLog[i].err
            /\ stack = <<>>
            /\ ~scan.active

C17_Witness ==
    /\ RunDone("scan")
    /\ dirs = {"r", "s", "t"}
    /\ Len(cbLog) = 2
    /\ cbLog[1].dir = "t"
    /\ cbLog[1].ok
    /\ cbLog[2].dir = "s"
    /\ cbLog[2].err = "open"
    /\ run.err = "open"

\* the auditor and the trust verifier were used on their own and the statuses
\* have been computed
TrustResolved == run.mode = "none" /\ run.state = "done"

IsTrusted(st) == st.Supported /\ st.Error = ""
IsFishy(st) == st.Supported /\ st.Error = "not found in trusted source"
FetchSucceeded(st) == st.Supported /\ st.Error # "could not fetch keys"

\* the issuer keys of the manifests that passed both checks of the audit
VerifiedKeys(ref) ==
    {auditLog[i].key : i \in {j \in 1..Len(auditLog) :
                                /\ auditLog[j].audited
                                /\ auditLog[j].ref = ref
                                /\ auditLog[j].err = ""}}

\* the keys fetched by the sub-verifier that answered for the reference
FetchedKeys(ref) == FetchPublicKeys(verifiers[consulted[ref][1]], ref).keys

EveryAuditPassed ==
    \A i \in 1..Len(auditLog) : auditLog[i].audited => auditLog[i].err = ""

\* what the code does: of the keys seen for a reference only the one of the
\* last manifest whose certificate passed is checked against the fetched set
LastKeyDecides ==
    TrustResolved =>
        \A ref \in DOMAIN auditorStatuses :
            FetchSucceeded(auditorStatuses[ref]) =>
                /\ IsTrusted(auditorStatuses[ref])
                      <=> trustedIssuers[ref].PublicKey \in FetchedKeys(ref)
                /\ IsFishy(auditorStatuses[ref])
                      <=> trustedIssuers[ref].PublicKey \notin FetchedKeys(ref)

(***************************************************************************)
(* C18: when every audited manifest passed both checks, a reference whose  *)
(* keys were fetched is trusted only if every issuer key the manifests     *)
(* carried for it is in the fetched set, and is fishy if they carried      *)
(* several keys for it of which one is not in the fetched set.             *)
(***************************************************************************)
C18_TrustedOnlyIfAllSeenKeysFetched ==
    (TrustResolved /\ EveryAuditPassed) =>
        \A ref \in DOMAIN auditorStatuses :
            FetchSucceeded(auditorStatuses[ref]) =>
                /\ IsTrusted(auditorStatuses[ref])
                      => VerifiedKeys(ref) \subseteq FetchedKeys(ref)
                /\ (/\ Cardinality(VerifiedKeys(ref)) > 1
                    /\ ~(VerifiedKeys(ref) \subseteq FetchedKeys(ref)))
                      => IsFishy(auditorStatuses[ref])

\* an issuer is kept only from a manifest whose certificate check passed
IssuerRecordedWhenCertificatePassed ==
    \A ref \in DOMAIN trustedIssuers :
        \E i \in 1..Len(auditLog) :
            /\ auditLog[i].audited
            /\ auditLog[i].ref = ref
            /\ auditLog[i].key = trustedIssuers[ref].PublicKey
            /\ auditLog[i].err # "auditor certificate is invalid"

(***************************************************************************)
(* C19: every (reference, issuer key) pair the auditor holds comes from a  *)
(* manifest that passed the certificate check and the manifest-signature   *)
(* check.                                                                  *)
(***************************************************************************)
C19_IssuerRecordedOnlyWhenVerified ==
    \A ref \in DOMAIN trustedIssuers :
        \E i \in 1..Len(auditLog) :
            /\ auditLog[i].audited
            /\ auditLog[i].ref = ref
            /\ auditLog[i].key = trustedIssuers[ref].PublicKey
            /\ auditLog[i].err = ""

\* the sub-verifiers that support the reference
Supporting(ref) ==
    {k \in 1..Len(verifiers) : VerifierSupports(verifiers[k], ref)}

FirstSupporting(ref) ==
    CHOOSE k \in Supporting(ref) : \A j \in Supporting(ref) : k <= j

(***************************************************************************)
(* C20: for each reference handed to the MultiSourceVerifier, Verify is    *)
(* called on the first sub-verifier in list order that supports it and on  *)
(* no other, and the status is the one that sub-verifier returns; when no  *)
(* sub-verifier supports the reference the status is unsupported.          *)
(***************************************************************************)
C20_FirstSupportingVerifierDecides ==
    TrustResolved =>
        /\ DOMAIN auditorStatuses = DOMAIN trustedIssuers
        /\ \A ref \in DOMAIN trustedIssuers :
              IF Supporting(ref) = {}
              THEN /\ consulted[ref] = <<>>
                   /\ auditorStatuses[ref] =
                         Status(trustedIssuers[ref], FALSE, "")
              ELSE /\ consulted[ref] = <<FirstSupporting(ref)>>
                   /\ auditorStatuses[ref] =
                         VerifierVerify(verifiers[FirstSupporting(ref)],
                                        {trustedIssuers[ref]})[ref]

C20_Witness ==
    /\ TrustResolved
    /\ Len(verifiers) = 2
    /\ Supporting(RootReference) = {1, 2}
    /\ RootReference \in DOMAIN trustedIssuers
    /\ trustedIssuers[RootReference].PublicKey = OtherRootKey
    /\ verifiers[1].keys = {RootKey}
    /\ ~verifiers[1].fetchErr
    /\ verifiers[2].keys = IssuerKeys
    /\ IsFishy(auditorStatuses[RootReference])
    /\ consulted[RootReference] = <<1>>

\* no sub-verifier of the list handles the scheme of the reference
NoHandler(ref) ==
    \A k \in 1..Len(verifiers) :
        verifiers[k].nil \/ ~HasPrefix(ref, verifiers[k].scheme)

\* every custom verifier of the list was built with the variable unset
CustomUnset ==
    \A k \in 1..Len(verifiers) :
        verifiers[k].scheme = "custom:" => verifiers[k].nil

(***************************************************************************)
(* C21: a reference that no sub-verifier supports gets the status          *)
(* unsupported with no error, which is the case of every custom: reference *)
(* when the custom verifier was built with the environment variable unset; *)
(* Verify is never called on the verifier without URL template, so nothing *)
(* panics.                                                                 *)
(***************************************************************************)
C21_UnsetCustomSchemeIsUnsupported ==
    TrustResolved =>
        \A ref \in DOMAIN auditorStatuses :
            /\ auditorStatuses[ref].Error # "panic"
            /\ NoHandler(ref) =>
                  auditorStatuses[ref] = Status(trustedIssuers[ref], FALSE, "")
            /\ (CustomUnset /\ HasPrefix(ref, "custom:")) =>
                  auditorStatuses[ref] = Status(trustedIssuers[ref], FALSE, "")

C21_Witness ==
    /\ TrustResolved
    /\ Len(verifiers) = 2
    /\ verifiers[1].nil
    /\ verifiers[2].scheme = "github:"
    /\ DOMAIN auditorStatuses = References
    /\ auditorStatuses[CustomReference] =
          Status(trustedIssuers[CustomReference], FALSE, "")
    /\ IsTrusted(auditorStatuses[RootReference])

\* the sub-verifier that handles the reference cannot fetch its trusted
\* keys: its source is unreachable, or the reference has no identifier
FetchFails(ref) ==
    /\ Supporting(ref) # {}
    /\ \/ verifiers[FirstSupporting(ref)].fetchErr
       \/ ref = EmptyIdReference

(***************************************************************************)
(* C22: a failure to fetch the trusted keys of a reference (unreachable    *)
(* source, or a reference without identifier) does not make the            *)
(* verification fail: that reference gets the status error, every other    *)
(* recorded reference is classified trusted, fishy or unsupported as its   *)
(* own sub-verifier decides, and the result is returned with no error.     *)
(***************************************************************************)
C22_FetchFailureIsAStatusNotAFailure ==
    TrustResolved =>
        /\ run.err = ""
        /\ DOMAIN auditorStatuses = DOMAIN trustedIssuers
        /\ \A ref \in DOMAIN trustedIssuers :
              IF FetchFails(ref)
              THEN auditorStatuses[ref] =
                      Status(trustedIssuers[ref], TRUE, "could not fetch keys")
              ELSE /\ auditorStatuses[ref].Error # "could not fetch keys"
                   /\ auditorStatuses[ref] =
                         Delegate(verifiers, 1, trustedIssuers[ref]).status

C22_Witness ==
    /\ TrustResolved
    /\ run.err = ""
    /\ EmptyIdReference \in DOMAIN auditorStatuses
    /\ Supporting(EmptyIdReference) # {}
    /\ ~verifiers[FirstSupporting(EmptyIdReference)].fetchErr
    /\ auditorStatuses[EmptyIdReference].Error = "could not fetch keys"
    /\ CustomReference \in DOMAIN auditorStatuses
    /\ IsTrusted(auditorStatuses[CustomReference])

C22_WitnessUnreachable ==
    /\ TrustResolved
    /\ RootReference \in DOMAIN auditorStatuses
    /\ Supporting(RootReference) # {}
    /\ verifiers[FirstSupporting(RootReference)].fetchErr
    /\ auditorStatuses[RootReference].Error = "could not fetch keys"
    /\ CustomReference \in DOMAIN auditorStatuses
    /\ IsFishy(auditorStatuses[CustomReference])

LastAudit == auditLog[Len(auditLog)]

\* the stored certificate is not the one that was saved
CertificateAltered ==
    /\ mf[Root] # NoFile
    /\ StoredCertificate(mf[Root]) # StoredCertificate(startMf[Root])

\* every field of the stored certificate is the hex of a value
CertificateWellFormed ==
    \A field \in CertificateFields \ {"issuerReference"} :
        Field(StoredCertificate(mf[Root]), field).v[1].t = "hex"

CryptoErrors == {"auditor certificate is invalid", "manifest signature is invalid"}

\* the audit of an altered certificate never passes
AlteredCertificateNeverPasses ==
    [][(AuditStored /\ CertificateAltered) => LastAudit'.err # ""]_vars

\* the audit of an altered certificate whose fields still decode to values
\* of the right length fails with the certificate error
WellFormedAlterationFails ==
    [][(AuditStored /\ CertificateAltered /\ CertificateWellFormed) =>
          LastAudit'.err = "auditor certificate is invalid"]_vars

(***************************************************************************)
(* C23: when a field of the certificate in a stored auditor block          *)
(* (publicKey, issuerPublicKey, issuerReference, signature) has been       *)
(* altered, the audit of that manifest returns the certificate error or    *)
(* the signature error.                                                    *)
(***************************************************************************)
C23_AlteredCertificateFailsAudit ==
    [][(AuditStored /\ CertificateAltered) =>
          LastAudit'.err \in CryptoErrors]_vars

\* the directories whose manifest the running command has written
WrittenThisRun == {generated[i] : i \in 1..Len(generated)}

SignedGenerate == run.mode = "generate" /\ run.signed

(***************************************************************************)
(* C24: in a generate run with a working signer one ephemeral key pair is  *)
(* generated; every manifest the run has written carries the same          *)
(* certificate, whose publicKey is that key; a signed manifest left by an  *)
(* earlier run carries another publicKey.                                  *)
(***************************************************************************)
C24_OneEphemeralKeyPerRun ==
    SignedGenerate =>
        /\ Len(run.keys) = 1
        /\ \A d \in WrittenThisRun :
              /\ IsSigned(d)
              /\ Field(StoredCertificate(mf[d]), "publicKey")
                    = JStr(HexEncode(run.keys[1]))
              /\ \A e \in WrittenThisRun :
                    StoredCertificate(mf[e]) = StoredCertificate(mf[d])
        /\ \A d \in dirs \ WrittenThisRun :
              IsSigned(d) =>
                  Field(StoredCertificate(mf[d]), "publicKey")
                     # JStr(HexEncode(run.keys[1]))

C24_Witness ==
    /\ SignedGenerate
    /\ run.state = "walking"
    /\ generated = <<"t", "s">>
    /\ IsSigned("t")
    /\ IsSigned("s")
    /\ IsSigned("r")
    /\ StoredCertificate(mf["t"]) = StoredCertificate(mf["s"])
    /\ StoredCertificate(mf["r"]) # StoredCertificate(mf["s"])

StoredManifestSignature(d) ==
    Field(Field(StoredDoc(d), "auditor"), "manifestSignature")

\* ed25519 signatures are deterministic: under one key, two manifests get
\* the same signature exactly when the signed bytes (entities and hmac) are
\* the same
SignatureFollowsContent ==
    SignedGenerate =>
        \A d, e \in WrittenThisRun :
            StoredManifestSignature(d) = StoredManifestSignature(e)
               <=> signedMsg[d] = signedMsg[e]

(***************************************************************************)
(* C25: in a signed generate run the manifestSignature values written for  *)
(* two different directories differ.                                       *)
(***************************************************************************)
C25_SignaturesDifferPerDirectory ==
    SignedGenerate =>
        \A d, e \in WrittenThisRun :
            d # e => StoredManifestSignature(d) # StoredManifestSignature(e)

\* the places of the run's Sign calls that were made by the root signer
RootSigns == {i \in 1..Len(run.signs) : run.signs[i].by = RootKey}

\* the Sign calls made before Walk is called: the probe, and with a working
\* signer the issuance of the certificate
SignsBeforeWalk == IF run.signed THEN {1, 2} ELSE {1}

(***************************************************************************)
(* C26: in a generate run the root signer's Sign is called only before the *)
(* walk, for the capability probe and for the certificate; each directory  *)
(* processed by the signed processor adds one Sign call, made with the     *)
(* ephemeral key, and the calls of a run are made one after the other.     *)
(***************************************************************************)
C26_RootSignerOnlyBeforeWalk ==
    run.mode = "generate" =>
        /\ RootSigns = SignsBeforeWalk
        /\ Len(run.signs) = Cardinality(SignsBeforeWalk)
                            + (IF run.signed THEN Len(generated) ELSE 0)
        /\ \A i \in 1..Len(run.signs) \ SignsBeforeWalk :
              /\ run.signs[i].by = run.keys[1]
              /\ run.signs[i].data = signedMsg[generated[i - Cardinality(SignsBeforeWalk)]]

C26_Witness ==
    /\ SignedGenerate
    /\ run.state = "done"
    /\ Len(generated) = Cardinality(DirNodes)
    /\ Len(run.signs) = Len(generated) + Cardinality(SignsBeforeWalk)
    /\ RootSigns = {1, 2}

ProcessorFailed == run.mode = "generate" /\ run.err = "failed to create processor"

(***************************************************************************)
(* C27: the processor of a generate run is chosen once, by the probe: when *)
(* the signer answers not-implemented no manifest written by the run has   *)
(* an auditor block, when the probe succeeds every manifest written by the *)
(* run has one, and when the signer fails otherwise Generate returns the   *)
(* error without walking and no manifest is created or modified.           *)
(***************************************************************************)
C27_ProcessorChosenByProbe ==
    run.mode = "generate" =>
        /\ \A d \in WrittenThisRun :
              /\ HasManifest(d)
              /\ IsSigned(d) <=> run.signed
        /\ ProcessorFailed =>
              /\ run.state # "walking"
              /\ mf = startMf
              /\ generated = <<>>
              /\ cbLog = <<>>
              /\ stats = [dirs |-> 0, cached |-> 0, files |-> 0]

C27_Witness ==
    /\ ProcessorFailed
    /\ run.state = "done"
    /\ pre.prev = "generate"
    /\ IsSigned("r")
    /\ HasManifest("s")
    /\ mf = startMf

C27_WitnessUnsigned ==
    /\ run.mode = "generate"
    /\ ~run.signed
    /\ run.state = "done"
    /\ run.err = ""
    /\ pre.kind = "signed"
    /\ WrittenThisRun = DirNodes
    /\ \A d \in DirNodes : ~IsSigned(d)

\* a reader that loads a manifest while it is being written gets an error
ReaderOfUnfinishedSaveFails ==
    \A d \in DirNodes :
        mf[d].t = "writing" => LoadBytes(ReadFile(mf[d])).err = "parse"

(***************************************************************************)
(* C28: while Save overwrites an existing manifest, what another process   *)
(* reads from the file is the complete old content or the complete new     *)
(* content, never an empty or partial file.                                *)
(***************************************************************************)
C28_SaveReplacesAtomically ==
    \A d \in DirNodes :
        startMf[d] # NoFile =>
            \/ ReadFile(mf[d]) = startMf[d]
            \/ ReadFile(mf[d]) \in {SaveBytes(m) : m \in ComputedInputs}

LoadReturned == run.mode = "none" /\ run.state = "done"

\* the entities and the hmac value of a manifest file, as parsed
ParsedEntities(bytes) == UnmarshalManifest(bytes).Entities
ParsedHmac(bytes) == UnmarshalManifest(bytes).HMAC

\* the HMAC of the entities of the file after sorting them by name
RecomputedHmac(bytes) == HmacHex(HmacInput(New(ParsedEntities(bytes))))

EntitiesAltered ==
    SortByName(ParsedEntities(mf[Root])) # SortByName(ParsedEntities(startMf[Root]))

HmacAltered == ParsedHmac(mf[Root]) # ParsedHmac(startMf[Root])

(***************************************************************************)
(* C29: LoadManifest accepts a file exactly when its hmac value equals the *)
(* HMAC recomputed from its entities sorted by name; a file written by     *)
(* Save loads with the entities, the hmac and the auditor block of the     *)
(* saved manifest; a file whose entities or whose hmac value was altered   *)
(* is refused with the invalid-HMAC error.                                 *)
(***************************************************************************)
C29_LoadAcceptsExactlyValidHmac ==
    LoadReturned =>
        /\ run.err = "" <=> ParsedHmac(mf[Root]) = RecomputedHmac(mf[Root])
        /\ mf = startMf =>
              /\ run.err = ""
              /\ \A m \in SaveInputs :
                    mf[Root] = SaveBytes(m) =>
                        /\ Stored(Root).m.Entities = m.Entities
                        /\ Stored(Root).m.HMAC = CalculateHMAC(m).HMAC
                        /\ Stored(Root).m.Auditor = m.Auditor
        /\ (EntitiesAltered /\ ~HmacAltered) => run.err = "invalid HMAC"
        /\ (HmacAltered /\ ~EntitiesAltered) => run.err = "invalid HMAC"

\* LoadManifest accepts a file exactly when its hmac value equals the HMAC
\* recomputed from its entities sorted by name
LoadAcceptsExactlyMatchingHmac ==
    LoadReturned =>
        (run.err = "" <=> ParsedHmac(mf[Root]) = RecomputedHmac(mf[Root]))

\* a file in which only the entities or only the hmac value was altered is
\* refused
AlteredFileRefused ==
    LoadReturned =>
        /\ (EntitiesAltered /\ ~HmacAltered) => run.err = "invalid HMAC"
        /\ (HmacAltered /\ ~EntitiesAltered) => run.err = "invalid HMAC"

\* every file name of the saved manifest is valid UTF-8
ValidNames(m) ==
    \A i \in 1..Len(m.Entities) : m.Entities[i].Name # InvalidUtf8Name

\* a saved manifest whose names are valid UTF-8 loads as it was saved
ValidNamesRoundTrip ==
    (LoadReturned /\ mf = startMf) =>
        \A m \in SaveInputs :
            (mf[Root] = SaveBytes(m) /\ ValidNames(m)) =>
                /\ run.err = ""
                /\ Stored(Root).m = CalculateHMAC(m)

\* a file that Save has just written is refused by LoadManifest
SavedFileRefused ==
    /\ LoadReturned
    /\ mf = startMf
    /\ run.err = "invalid HMAC"

\* a file that Save has just written loads with another entity name
SavedFileLoadsChanged ==
    /\ LoadReturned
    /\ mf = startMf
    /\ run.err = ""
    /\ \E m \in SaveInputs :
          /\ mf[Root] = SaveBytes(m)
          /\ Stored(Root).m.Entities # m.Entities

RefusedAfterAlteration ==
    /\ LoadReturned
    /\ EntitiesAltered
    /\ ~HmacAltered
    /\ Stored(Root).err = "invalid HMAC"
    /\ HasField(StoredDoc(Root), "auditor")

RoundTripReached ==
    /\ LoadReturned
    /\ mf = startMf
    /\ run.err = ""
    /\ Len(Stored(Root).m.Entities) > 1
    /\ Stored(Root).m.Auditor.present

ReorderedFileAccepted ==
    /\ LoadReturned
    /\ mf # startMf
    /\ ParsedEntities(mf[Root]) # ParsedEntities(startMf[Root])
    /\ run.err = ""

\* a step of a running verify command
VerifyStep == run.mode = "verify" /\ run.state = "walking" /\ run'.no = run.no

(***************************************************************************)
(* C30: no step of a verify run changes the content of a manifest file, so *)
(* the checksum a parent directory holds for the manifest of a child stays *)
(* that of the file; a touch sets the modification time of the touched     *)
(* manifest and changes nothing else on disk.                              *)
(***************************************************************************)
C30_TouchChangesOnlyModTime ==
    [][VerifyStep =>
          /\ mf' = mf
          /\ files' = files
          /\ dirs' = dirs
          /\ \A d \in DirNodes : ChecksumOf(mf'[d]) = ChecksumOf(mf[d])
          /\ \A d \in DirNodes :
                mfresh'[d] # mfresh[d] =>
                    /\ Len(cbLog') = Len(cbLog) + 1
                    /\ LastCallback'.dir = d
                    /\ LastCallback'.touched]_vars

C30_Witness ==
    /\ RunDone("verify")
    /\ run.err = ""
    /\ dirs = DirNodes
    /\ \A i \in 1..Len(cbLog) : cbLog[i].touched
    /\ Len(cbLog) = Cardinality(DirNodes)
    /\ mf = startMf
    /\ EntityByName(Stored("r").m, "s").Checksum = ChecksumOf(mf["s"])
    /\ EntityByName(Stored("s").m, "t").Checksum = ChecksumOf(mf["t"])

\* the verify run has ended without error and every directory is reported
\* found and valid
EveryDirectoryValid ==
    /\ RunDone("verify")
    /\ run.err = ""
    /\ {statuses[i].Path : i \in 1..Len(statuses)} = dirs
    /\ \A i \in 1..Len(statuses) : statuses[i].Found /\ statuses[i].Valid

\* the auditor block removed from the manifest of a directory below the root
\* is noticed by the verify that follows
StrippedBelowRootNoticed ==
    (RunDone("verify") /\ pre.kind = "stripped") => ~EveryDirectoryValid

(***************************************************************************)
(* C38: after the auditor block was removed from a manifest written by a   *)
(* signed generate, the manifest of the root included, the verify that     *)
(* follows does not report every directory valid.                          *)
(***************************************************************************)
C38_StrippedAuditorNoticed ==
    (RunDone("verify") /\ pre.kind \in {"stripped", "stripped root"}) =>
        ~EveryDirectoryValid


\* the issuer reference carried by the certificate of the manifest stored in d
StoredIssuerRef(d) == GetAuditorCertificate(Stored(d).m).IssuerRef

\* a verify with a freshness interval has returned its result
FreshVerifyReturned == RunDone("verify") /\ run.fresh /\ run.err = ""

\* the issuers of the signed manifests that the verify did not skip are listed
UnskippedIssuersListed ==
    FreshVerifyReturned =>
        \A i \in 1..Len(statuses) :
            (~statuses[i].Skipped /\ IsSigned(statuses[i].Path)) =>
                StoredIssuerRef(statuses[i].Path) \in DOMAIN auditorStatuses

(***************************************************************************)
(* C39: when a verify with a freshness interval returns its result, the    *)
(* issuer reference of every signed manifest of the walked tree, the       *)
(* manifests skipped as fresh included, is a key of the auditor statuses.  *)
(***************************************************************************)
C39_FreshVerifyListsEveryIssuer ==
    FreshVerifyReturned =>
        \A d \in dirs :
            IsSigned(d) => StoredIssuerRef(d) \in DOMAIN auditorStatuses


\* the manifest stored in d records, for each subdirectory, the SHA-256 of the
\* manifest file that the subdirectory holds now
DirectoryChecksumsCurrent(d) ==
    \A i \in 1..Len(Stored(d).m.Entities) :
        LET e == Stored(d).m.Entities[i]
        IN e.IsDir => e.Checksum = ChecksumOf(mf[e.Name])

GenerateCompleted == RunDone("generate") /\ run.err = ""

\* without a freshness limit every manifest is rewritten, children first
RegeneratedChecksumsCurrent ==
    (GenerateCompleted /\ ~run.fresh) =>
        \A d \in dirs : HasManifest(d) /\ DirectoryChecksumsCurrent(d)

(***************************************************************************)
(* C37: after a generate that completes without error, with or without a   *)
(* freshness limit, every directory entity of every manifest on disk       *)
(* carries the SHA-256 of the manifest file that the child directory holds *)
(* on disk.                                                                *)
(***************************************************************************)
C37_DirectoryChecksumsMatchDisk ==
    GenerateCompleted =>
        \A d \in dirs : HasManifest(d) => DirectoryChecksumsCurrent(d)


\* scanDirectory is running on a directory that has entries
ScanningEntries == scan.active /\ scan.entries # <<>>

\* no goroutine of scanDirectory can take a step and the caller's context is
\* not cancelled
PoolStuck ==
    /\ ScanningEntries
    /\ run.cancelAt = ""
    /\ scan.next <= Len(scan.entries)
    /\ DOMAIN scan.wk = {}

\* with a workers count below one the pool of a directory that has entries
\* has no worker, and the job sender waits on the jobs channel
NoWorkerMeansStuck ==
    (ScanningEntries /\ run.workers < 1 /\ run.cancelAt = "") => PoolStuck

(***************************************************************************)
(* C36: scanDirectory, started on a directory that has entries by a        *)
(* scanner built with any workers count (zero and negative counts          *)
(* included), returns; no cancellation of the context is needed for that.  *)
(***************************************************************************)
C36_ScanTerminatesForAnyWorkersCount ==
    ScanningEntries ~> ~scan.active


\* scanDirectory returns in this step
ScanReturns == scan.active /\ ~scan'.active

\* when scanDirectory returns, the job sender has returned and so has every
\* worker: none holds a job or a result
GoroutinesFinished ==
    /\ scan.next > Len(scan.entries)
    /\ \A w \in DOMAIN scan.wk : scan.wk[w].st \in {"idle", "exit"}

\* the error of the worker that failed is what the callback is given, and
\* with it no manifest: nothing is written for the directory
WorkerFailureReturned ==
    /\ cbLog' = Append(cbLog, [dir |-> scan.dir, cached |-> FALSE, ok |-> FALSE,
                               touched |-> FALSE,
                               err |-> "open"])
    /\ run'.err = "open"
    /\ run'.state = "done"
    /\ mf' = mf
    /\ stats'.dirs = stats.dirs

(***************************************************************************)
(* C35: with a positive workers count scanDirectory returns for every      *)
(* directory, and when it returns the job sender and every worker have     *)
(* finished, also when a worker failed on a checksum or the context was    *)
(* cancelled while other workers held a result or waited for a job; after  *)
(* a worker's failure it returns that error and no manifest.               *)
(***************************************************************************)
C35_PoolTerminatesAndReportsFailure ==
    /\ (scan.active /\ run.workers > 0) ~> ~scan.active
    /\ [][ScanReturns => GoroutinesFinished]_vars
    /\ [][(ScanReturns /\ scan.err = "open") => WorkerFailureReturned]_vars

\* a worker has failed while another one holds a result that the collecting
\* loop has not taken yet
C35_Witness ==
    /\ scan.active
    /\ run.workers = 2
    /\ scan.err = "open"
    /\ \E w \in DOMAIN scan.wk : scan.wk[w].st = "send"
    /\ \E w \in DOMAIN scan.wk : scan.wk[w].st = "exit"

\* the context is cancelled while a worker holds a result and jobs remain
PoolCancelledWhileBlocked ==
    /\ scan.active
    /\ run.cancelAt # ""
    /\ scan.next <= Len(scan.entries)
    /\ \E w \in DOMAIN scan.wk : scan.wk[w].st = "send"


\* the buffer of the progress channel has no room left
ChannelFull == Len(prog.buf) >= ProgressBuffer

\* an update is sent (by Start or by the ticker) in this step
UpdateSent == prog'.calls = prog.calls + 1

\* the first snapshot, sent by Start, is still in the channel: nobody has read
NobodyHasRead ==
    /\ prog.buf # <<>>
    /\ prog.buf[1] = Snapshot([dirs |-> 0, cached |-> 0, files |-> 0],
                              NewProgress)

(***************************************************************************)
(* C31: sending a progress snapshot never holds up the scan.  The channel  *)
(* never holds more than its buffer; an update sent while the buffer is    *)
(* full is dropped in the same step, which changes nothing of the walk;    *)
(* and a walk that has started comes to its end although nothing makes     *)
(* the reader receive.                                                     *)
(***************************************************************************)
C31_ProgressSendNeverBlocks ==
    /\ [](Len(prog.buf) <= ProgressBuffer)
    /\ [][(UpdateSent /\ ChannelFull /\ prog.ticker = "running")
              => (prog'.buf = prog.buf /\ UNCHANGED walkVars)]_vars
    /\ (run.state = "walking") ~> (run.state # "walking")

\* a walk has ended without error, more updates were sent than the channel
\* holds, and nobody has read the channel
C31_Witness ==
    /\ run.state = "done"
    /\ run.err = ""
    /\ run.cancelAt = ""
    /\ NobodyHasRead
    /\ ChannelFull
    /\ prog.calls > ProgressBuffer
    /\ stats.dirs = Cardinality(dirs)

\* a Stats method other than Start changes a counter, the bytes or the path
CounterMutated == stats' # stats \/ prog'.bytes # prog.bytes
PathMutated == prog'.currentFile # prog.currentFile
StartStep == prog.ticker = "none" /\ prog'.ticker # "none"

\* the counters and the bytes set the flag
CounterMutationsSetDirty ==
    [][(CounterMutated /\ ~StartStep) => prog'.dirty]_vars

(***************************************************************************)
(* C32: every mutation of Stats sets the dirty flag: an increment of a     *)
(* counter, an addition of processed bytes, an update of the current file  *)
(* path.                                                                   *)
(***************************************************************************)
C32_EveryMutationSetsDirty ==
    [][((CounterMutated \/ PathMutated) /\ ~StartStep) => prog'.dirty]_vars

\* Stop is called on a Stats that has a subscriber
StopStep == prog.ticker # "exited" /\ prog'.ticker = "exited" /\ prog.onUpdate

(***************************************************************************)
(* C33: a call of Stop on Stats calls the subscriber's callback exactly    *)
(* once, with a final snapshot.                                            *)
(***************************************************************************)
C33_StopSendsOneFinalSnapshot ==
    [][StopStep => prog'.calls = prog.calls + 1]_vars

\* Start and then Stop, no tick between them: the callback has run twice
C33_Witness ==
    /\ prog.ticker = "exited"
    /\ prog.onUpdate
    /\ prog.calls = 2
    /\ stats = [dirs |-> 0, cached |-> 0, files |-> 0]
    /\ prog.bytes = 0

\* while the channel is open no send on it panics
NoPanicWhileOpen == ~prog.closed => ~prog.panic

\* the ticker goroutine outlives the walk unless the context is cancelled
TickerOutlivesWalk ==
    (run.state = "done" /\ run.cancelAt = "" /\ prog.onUpdate /\ ~prog.panic)
        => prog.ticker = "running"

(***************************************************************************)
(* C34: once the command has closed the progress channel, after Generate   *)
(* or Verify returned, the ticker of the scanner never sends on it, also   *)
(* with the dirty flag still set and the context not cancelled.            *)
(***************************************************************************)
C34_NoSendAfterClose == prog.closed => ~prog.panic

================================================================================
